---- MODULE Spec2Model ----
(***************************************************************************)
(* A model of the Demultiplexor (src/src/decombinator/demultiplex.py).     *)
(*                                                                         *)
(* Python strings are sequences of one-character strings, so that slicing, *)
(* splitting, stripping and replacing are computed as the code computes    *)
(* them.  Python's None is the one-element sequence NoneVal, which is no   *)
(* string of characters.  A dictionary is a function, the order of its    *)
(* keys a sequence beside it; a name of the module namespace that no      *)
(* statement has assigned yet is absent from `bound'.  A file is the      *)
(* sequence of the chunks of text written to it.  What is written to a    *)
(* handle that stays open is held by the handle until it is closed, as    *)
(* io's buffer does with less text than it has room for (8192            *)
(* characters); every run followed here writes less.  The run is followed *)
(* from the parsed command line to the compression of the output files;   *)
(* the statistics printed and the files written under Logs after that are *)
(* left out.  When an exception ends the run, the state is the one in     *)
(* which it is raised.                                                     *)
(***************************************************************************)
EXTENDS Integers, Sequences, FiniteSets, TLC

(* ----------------------------- bounds ---------------------------------- *)

\* The longest run of read tuples a stream holds before its optional extra record.
MaxReads == 3

\* The same for a run with --outputall, whose tables hold every index pair.
MaxReadsAll == 1

\* How many records a file handed to the reader on its own holds.
MaxRecords == 2

\* How many lines a sample table file holds, and how long its first row's
\* index 1 sequence is, when table building is exercised on its own.
MaxRows == 3

MaxIndexLen == 2

(* --------------------------- python values ----------------------------- *)

\* A str is the sequence of its characters.  A character of ASCII is the
\* string holding it; a character outside ASCII is written by its code
\* point, as "U+00E9" (letters in upper case, four digits or more).
IsAscii(c) == Len(c) = 1

NoneVal == <<"None">>

NL == "\n"

Min2(a, b) == IF a <= b THEN a ELSE b

\* s[a:b] for 0 <= a, b: the characters at 0-based positions a .. b-1.
Slice(s, a, b) == SubSeq(s, Min2(a, Len(s)) + 1, Min2(b, Len(s)))

\* s[a:]
SliceFrom(s, a) == SubSeq(s, Min2(a, Len(s)) + 1, Len(s))

\* l[:-1]: everything but the last character, whatever that character is.
DropLast(s) == SubSeq(s, 1, Len(s) - 1)

IsPrefixAt(s, i, pat) ==
    /\ i + Len(pat) - 1 <= Len(s)
    /\ SubSeq(s, i, i + Len(pat) - 1) = pat

RECURSIVE ReplaceFrom(_, _, _, _)
ReplaceFrom(s, i, old, new) ==
    IF i > Len(s) THEN << >>
    ELSE IF IsPrefixAt(s, i, old)
         THEN new \o ReplaceFrom(s, i + Len(old), old, new)
         ELSE <<s[i]>> \o ReplaceFrom(s, i + 1, old, new)

\* str.replace(old, new) for a non-empty old: every occurrence, left to right.
Replace(s, old, new) == ReplaceFrom(s, 1, old, new)

RECURSIVE SplitFrom(_, _, _, _)
SplitFrom(s, i, sep, cur) ==
    IF i > Len(s) THEN <<cur>>
    ELSE IF s[i] = sep
         THEN <<cur>> \o SplitFrom(s, i + 1, sep, << >>)
         ELSE SplitFrom(s, i + 1, sep, Append(cur, s[i]))

\* str.split(sep) for a one-character sep.
Split(s, sep) == SplitFrom(s, 1, sep, << >>)

\* The characters str.strip() removes.  Those outside ASCII are written by
\* code point (see IsAscii): next line, no-break space, ogham space mark, the
\* spaces U+2000..U+200A, line and paragraph separator, narrow no-break
\* space, medium mathematical space and ideographic space.  The ASCII ones
\* are space, tab, newline, carriage return, form feed, and, each written as
\* the character itself, vertical tab and the separators U+001C..U+001F.
Whitespace ==
    {" ", "\t", "\n", "\r", "\f", "", "", "", "", "",
     "U+0085", "U+00A0", "U+1680",
     "U+2000", "U+2001", "U+2002", "U+2003", "U+2004", "U+2005", "U+2006",
     "U+2007", "U+2008", "U+2009", "U+200A",
     "U+2028", "U+2029", "U+202F", "U+205F", "U+3000"}

RECURSIVE LStrip(_, _)
LStrip(s, chars) ==
    IF Len(s) > 0 /\ s[1] \in chars THEN LStrip(Tail(s), chars) ELSE s

RECURSIVE RStrip(_, _)
RStrip(s, chars) ==
    IF Len(s) > 0 /\ s[Len(s)] \in chars THEN RStrip(DropLast(s), chars) ELSE s

\* str.strip(): whitespace off both ends;  str.strip(chars) likewise.
StripChars(s, chars) == RStrip(LStrip(s, chars), chars)

Strip(s) == StripChars(s, Whitespace)

\* str.partition(" ")[0]: the part before the first space (all of s without one).
RECURSIVE BeforeFirst(_, _)
BeforeFirst(s, ch) ==
    IF Len(s) = 0 \/ s[1] = ch THEN << >>
    ELSE <<s[1]>> \o BeforeFirst(Tail(s), ch)

RECURSIVE Join(_)
Join(ss) == IF Len(ss) = 0 THEN << >> ELSE Head(ss) \o Join(Tail(ss))

RECURSIVE SumLen(_)
SumLen(ss) == IF Len(ss) = 0 THEN 0 ELSE Len(Head(ss)) + SumLen(Tail(ss))

(* ------------------------ sequence processing -------------------------- *)

\* A complement that turns the unknown base into A.
ComplementKnown(b) ==
    CASE b = "A" -> "T"
      [] b = "T" -> "A"
      [] b = "C" -> "G"
      [] b = "G" -> "C"
      [] OTHER   -> "A"

\* The complement of a base: the IUPAC letters in upper and in lower case,
\* U as T, every other ASCII character as it is.
Complement(b) ==
    CASE b = "A" -> "T" [] b = "T" -> "A" [] b = "C" -> "G" [] b = "G" -> "C"
      [] b = "M" -> "K" [] b = "K" -> "M" [] b = "R" -> "Y" [] b = "Y" -> "R"
      [] b = "V" -> "B" [] b = "B" -> "V" [] b = "H" -> "D" [] b = "D" -> "H"
      [] b = "a" -> "t" [] b = "t" -> "a" [] b = "c" -> "g" [] b = "g" -> "c"
      [] b = "m" -> "k" [] b = "k" -> "m" [] b = "r" -> "y" [] b = "y" -> "r"
      [] b = "v" -> "b" [] b = "b" -> "v" [] b = "h" -> "d" [] b = "d" -> "h"
      [] b = "U" -> "A" [] b = "u" -> "a"
      [] OTHER   -> b

\* Seq(x) encodes x as ASCII: with a character outside ASCII it raises
\* UnicodeEncodeError.
SeqRaises(x) == \E i \in 1..Len(x) : ~IsAscii(x[i])

\* Bio.Seq.reverse_complement: the complemented bases in reverse order.
revcomp(x) == [i \in 1..Len(x) |-> Complement(x[Len(x) + 1 - i])]

LevSubstCost(a, b) == IF a = b THEN 0 ELSE 1

\* One row of the edit-distance table: row[j+1] is the distance between the
\* first i characters of a and the first j characters of b.
RECURSIVE LevRow(_, _, _, _, _)
LevRow(prev, ai, b, j, acc) ==
    IF j > Len(b) THEN acc
    ELSE LET del == prev[j + 1] + 1
             ins == acc[j] + 1
             sub == prev[j] + LevSubstCost(ai, b[j])
             m1  == IF del <= ins THEN del ELSE ins
             m   == IF m1 <= sub THEN m1 ELSE sub
         IN LevRow(prev, ai, b, j + 1, Append(acc, m))

RECURSIVE LevRows(_, _, _, _)
LevRows(prev, a, b, i) ==
    IF i > Len(a) THEN prev[Len(b) + 1]
    ELSE LET row == LevRow(prev, a[i], b, 1, <<i>>)
         IN IF Len(row) > 0 THEN LevRows(row, a, b, i + 1) ELSE 0

RECURSIVE CommonPrefix(_, _, _)
CommonPrefix(a, b, n) ==
    IF n < Len(a) /\ n < Len(b) /\ a[n + 1] = b[n + 1]
    THEN CommonPrefix(a, b, n + 1) ELSE n

\* The distance by the full table, row after row.
LevTable(a, b) == LevRows([j \in 1..(Len(b) + 1) |-> j - 1], a, b, 1)

\* Levenshtein.distance: insertions, deletions and substitutions cost 1 each.
\* As in the library, a common prefix is set aside before the table is filled.
LevDistance(a, b) ==
    LET n == CommonPrefix(a, b, 0) IN LevTable(SliceFrom(a, n), SliceFrom(b, n))

\* Column j of a row of the table that holds the columns from lo on; a
\* column the row does not hold lies off the diagonal band and counts as
\* more than t.
BandAt(row, lo, j, t) ==
    IF j < lo \/ j >= lo + Len(row) THEN t + 1 ELSE row[j - lo + 1]

\* Row i of the table between the columns lo and hi, from the row before.
RECURSIVE BandRow(_, _, _, _, _, _, _, _, _)
BandRow(prev, plo, i, ai, b, lo, hi, t, row) ==
    LET j == lo + Len(row)
    IN IF j > hi THEN row
       ELSE IF j = 0 THEN BandRow(prev, plo, i, ai, b, lo, hi, t, <<i>>)
       ELSE LET del == BandAt(prev, plo, j, t) + 1
                ins == BandAt(row, lo, j - 1, t) + 1
                sub == BandAt(prev, plo, j - 1, t) + LevSubstCost(ai, b[j])
                m1  == IF del <= ins THEN del ELSE ins
                m   == IF m1 <= sub THEN m1 ELSE sub
            IN BandRow(prev, plo, i, ai, b, lo, hi, t, Append(row, m))

RECURSIVE BandRows(_, _, _, _, _, _)
BandRows(prev, plo, a, b, t, i) ==
    IF i > Len(a) THEN BandAt(prev, plo, Len(b), t) <= t
    ELSE LET lo == IF i > t THEN i - t ELSE 0
             hi == IF i + t < Len(b) THEN i + t ELSE Len(b)
             row == BandRow(prev, plo, i, a[i], b, lo, hi, t, << >>)
         IN IF \A k \in 1..Len(row) : row[k] > t THEN FALSE
            ELSE BandRows(row, lo, a, b, t, i + 1)

\* Levenshtein.distance(a, b) <= t, by the part of the table that decides it:
\* the entry for i characters of a and j of b is at least the difference of
\* i and j, so only the entries with that difference up to t can be t or
\* less, and once a whole row exceeds t so does the distance.
LevWithin(a, b, t) ==
    IF t < 0 \/ Len(a) - Len(b) > t \/ Len(b) - Len(a) > t THEN FALSE
    ELSE BandRows([j \in 1..((IF t < Len(b) THEN t ELSE Len(b)) + 1) |-> j - 1],
                  0, a, b, t, 1)

(* --------------------------- FASTQ processing -------------------------- *)

\* Python truthiness of `last': None and the empty string are false.
Truthy(s) == s # NoneVal /\ Len(s) > 0

\* l[0] in ">@" and l[0] in "@+>" (a line read from a file is never empty).
IsHeaderLine(l) == l[1] \in {">", "@"}

IsMarkerLine(l) == l[1] \in {"@", "+", ">"}

\* for l in fp: if l[0] in ">@": last = l[:-1]; break
\* The position of the first header line at or after pos, 0 when there is none.
RECURSIVE FindHeader(_, _)
FindHeader(fp, pos) ==
    IF pos > Len(fp) THEN 0
    ELSE IF IsHeaderLine(fp[pos]) THEN pos
         ELSE FindHeader(fp, pos + 1)

\* for l in fp: if l[0] in "@+>": last = l[:-1]; break; seqs.append(l[:-1])
\* The sequence lines read, the marker line that ended them (None at the end
\* of the input) and the position of the next unread line.
RECURSIVE ReadSeqLines(_, _, _)
ReadSeqLines(fp, pos, seqs) ==
    IF pos > Len(fp) THEN [seqs |-> seqs, last |-> NoneVal, pos |-> pos]
    ELSE IF IsMarkerLine(fp[pos])
         THEN [seqs |-> seqs, last |-> DropLast(fp[pos]), pos |-> pos + 1]
         ELSE ReadSeqLines(fp, pos + 1, Append(seqs, DropLast(fp[pos])))

\* A reader that takes one line of quality, whatever its length.
ReadQualOneLine(fp, pos, seqlen, leng, seqs) ==
    IF pos > Len(fp) THEN [seqs |-> seqs, enough |-> FALSE, pos |-> pos]
    ELSE [seqs |-> Append(seqs, DropLast(fp[pos])), enough |-> TRUE, pos |-> pos + 1]

\* for l in fp: seqs.append(l[:-1]); leng += len(l) - 1
\*              if leng >= len(seq): last = None; yield ...; break
\* The quality lines read and the position of the next unread line; enough
\* is FALSE when the input ended before leng reached len(seq).
RECURSIVE ReadQualLines(_, _, _, _, _)
ReadQualLines(fp, pos, seqlen, leng, seqs) ==
    IF pos > Len(fp) THEN [seqs |-> seqs, enough |-> FALSE, pos |-> pos]
    ELSE LET seqs2 == Append(seqs, DropLast(fp[pos]))
             leng2 == leng + Len(fp[pos]) - 1
         IN IF leng2 >= seqlen
            THEN [seqs |-> seqs2, enough |-> TRUE, pos |-> pos + 1]
            ELSE ReadQualLines(fp, pos + 1, seqlen, leng2, seqs2)

\* name = last[1:].partition(" ")[0]
HeaderName(last) == BeforeFirst(SliceFrom(last, 1), " ")

\* The generator before its first resumption: no line read, `last' None.
\* at names the yield the generator is suspended at ("start" before the
\* first): "fasta" is line 251, "fastq" line 259, "degraded" line 263.
GenStart == [lineno |-> 1, last |-> NoneVal, at |-> "start"]

\* StopIteration: the generator has returned.
GenStop(g) == [stop |-> TRUE, rec |-> NoneVal, gen |-> g]

GenYield(rec, lineno, last, at) ==
    [stop |-> FALSE, rec |-> rec, gen |-> [lineno |-> lineno, last |-> last, at |-> at]]

\* One pass of the body of `while True', from the line at pos on, `last'
\* being the generator's buffer: up to the next yield, or to the break that
\* ends the generator.  A record is <<name, sequence, quality>>, the quality
\* None for a FASTA record.
ReadFqPass(fp, pos, last) ==
    LET hdr   == IF Truthy(last) THEN 0 ELSE FindHeader(fp, pos)
        last1 == IF Truthy(last) THEN last
                 ELSE IF hdr = 0 THEN last ELSE DropLast(fp[hdr])
        pos1  == IF Truthy(last) THEN pos
                 ELSE IF hdr = 0 THEN Len(fp) + 1 ELSE hdr + 1
    IN IF ~Truthy(last1) THEN GenStop([lineno |-> pos1, last |-> last1, at |-> "end"])
       ELSE LET name == HeaderName(last1)
                rs   == ReadSeqLines(fp, pos1, << >>)
            IN IF ~Truthy(rs.last) \/ rs.last[1] # "+"
               THEN GenYield(<<name, Join(rs.seqs), NoneVal>>, rs.pos, rs.last, "fasta")
               ELSE LET seq == Join(rs.seqs)
                        rq  == ReadQualLines(fp, rs.pos, Len(seq), 0, << >>)
                    IN IF rq.enough
                       THEN GenYield(<<name, seq, Join(rq.seqs)>>, rq.pos, NoneVal, "fastq")
                       ELSE GenYield(<<name, seq, NoneVal>>, rq.pos, rs.last, "degraded")

\* next() on the generator in state g: after the yield of a FASTA record
\* with nothing left (`if not last: break') and after the yield of a record
\* cut short (`break') the generator returns; otherwise the loop goes round.
ReadFqNext(fp, g) ==
    IF g.at = "end" \/ g.at = "degraded" \/ (g.at = "fasta" /\ ~Truthy(g.last))
    THEN GenStop([g EXCEPT !.at = "end"])
    ELSE ReadFqPass(fp, g.lineno, g.last)

\* The records the generator yields from state g on, in order; n is what
\* its next resumption gives.
RECURSIVE ReadFqFrom(_, _)
RECURSIVE ReadFqRest(_, _)
ReadFqRest(fp, n) == IF n.stop THEN << >> ELSE <<n.rec>> \o ReadFqFrom(fp, n.gen)

ReadFqFrom(fp, g) == ReadFqRest(fp, ReadFqNext(fp, g))

\* list(readfq(fp)): every record the generator yields, in order.
readfq(fp) == ReadFqFrom(fp, GenStart)

(* --------------------------- index dictionaries ------------------------ *)

\* X1dict (SP1 index) as <<key, hexamer>>, in source order.
X1Entries ==
    << << <<"1">>, <<"A","T","C","A","C","G">> >>,
       << <<"2">>, <<"C","G","A","T","G","T">> >>,
       << <<"3">>, <<"T","T","A","G","G","C">> >>,
       << <<"4">>, <<"T","G","A","C","C","A">> >>,
       << <<"5">>, <<"A","C","A","G","T","G">> >>,
       << <<"6">>, <<"G","C","C","A","A","T">> >>,
       << <<"7">>, <<"C","A","G","A","T","C">> >>,
       << <<"8">>, <<"A","C","T","T","G","A">> >>,
       << <<"9">>, <<"G","A","T","C","A","G">> >>,
       << <<"1","0">>, <<"T","A","G","C","T","T">> >>,
       << <<"1","1">>, <<"G","G","C","T","A","C">> >>,
       << <<"1","2">>, <<"C","T","T","G","T","A">> >>,
       << <<"1","3">>, <<"T","A","G","A","C","T">> >> >>

\* X2dict (SP2 index) as <<key, index>>, in source order.
X2Entries ==
    << << <<"1">>, <<"C","G","T","G","A","T">> >>,
       << <<"2">>, <<"A","C","A","T","C","G">> >>,
       << <<"3">>, <<"G","C","C","T","A","A">> >>,
       << <<"4">>, <<"T","G","G","T","C","A">> >>,
       << <<"5">>, <<"C","A","C","T","G","T">> >>,
       << <<"6">>, <<"A","T","T","G","G","C">> >>,
       << <<"7">>, <<"G","A","T","C","T","G">> >>,
       << <<"8">>, <<"T","C","A","A","G","T">> >>,
       << <<"9">>, <<"C","T","G","A","T","C">> >>,
       << <<"1","0">>, <<"A","A","G","C","T","A">> >>,
       << <<"1","1">>, <<"G","T","A","G","C","C">> >>,
       << <<"1","2">>, <<"T","A","C","A","A","G">> >>,
       << <<"1","3">>, <<"T","T","G","A","C","T">> >>,
       << <<"1","4">>, <<"G","G","A","A","C","T">> >>,
       << <<"1","5">>, <<"C","C","T","G","G","T","A","G">> >>,
       << <<"1","6">>, <<"T","A","A","G","C","A","T","G">> >>,
       << <<"1","7">>, <<"A","G","A","T","G","T","G","C">> >>,
       << <<"1","8">>, <<"G","T","C","G","A","G","C","A">> >>,
       << <<"1","9">>, <<"G","A","A","T","T","G","C","T">> >>,
       << <<"2","0">>, <<"A","A","G","C","A","A","C","T">> >>,
       << <<"2","1">>, <<"C","T","A","A","C","T","G","G">> >>,
       << <<"2","2">>, <<"A","G","G","C","T","C","A","A">> >>,
       << <<"2","3">>, <<"C","A","G","T","T","G","G","T">> >>,
       << <<"2","4">>, <<"T","C","T","G","G","A","C","C">> >>,
       << <<"2","5">>, <<"T","G","T","T","A","T","A","C">> >>,
       << <<"2","6">>, <<"T","C","A","G","C","G","A","A">> >>,
       << <<"2","7">>, <<"A","C","A","T","A","G","C","G">> >>,
       << <<"2","8">>, <<"T","G","T","G","C","T","T","A">> >>,
       << <<"2","9">>, <<"G","A","T","G","T","T","A","C">> >>,
       << <<"3","0">>, <<"G","T","C","T","T","A","G","T">> >>,
       << <<"3","1">>, <<"G","A","G","T","T","A","C","A">> >>,
       << <<"3","2">>, <<"C","C","A","T","T","G","T","T">> >>,
       << <<"3","3">>, <<"T","G","C","G","A","A","G","G">> >>,
       << <<"3","4">>, <<"C","A","A","C","G","G","T","C">> >>,
       << <<"3","5">>, <<"C","T","T","G","C","A","G","A">> >>,
       << <<"3","6">>, <<"A","G","G","A","T","G","T","G">> >>,
       << <<"3","7">>, <<"T","A","G","A","T","C","C","T">> >>,
       << <<"3","8">>, <<"T","A","G","A","T","G","A","C">> >>,
       << <<"3","9">>, <<"C","T","A","G","G","T","T","C">> >>,
       << <<"4","0">>, <<"G","T","G","C","G","T","A","A">> >>,
       << <<"4","1">>, <<"T","C","G","C","A","C","C","T">> >>,
       << <<"4","2">>, <<"C","G","A","T","C","A","T","G">> >>,
       << <<"4","3">>, <<"G","T","T","G","C","G","G","C">> >>,
       << <<"4","4">>, <<"A","G","A","T","A","T","A","A">> >>,
       << <<"4","5">>, <<"C","G","C","C","A","C","A","G">> >>,
       << <<"4","6">>, <<"A","A","T","G","C","G","T","T">> >>,
       << <<"4","7">>, <<"G","T","C","A","A","G","T","T">> >>,
       << <<"4","8">>, <<"G","G","A","A","G","G","C","G">> >>,
       << <<"4","9">>, <<"T","C","C","T","G","G","T","C">> >>,
       << <<"5","0">>, <<"A","C","C","A","A","G","G","A">> >>,
       << <<"5","1">>, <<"A","G","T","G","T","C","T","T">> >>,
       << <<"5","2">>, <<"G","A","T","T","A","C","A","G">> >>,
       << <<"5","3">>, <<"A","C","T","T","C","T","T","C">> >>,
       << <<"5","4">>, <<"G","T","T","C","A","T","T","A">> >>,
       << <<"5","5">>, <<"T","T","G","C","T","G","G","A">> >>,
       << <<"5","6">>, <<"C","T","G","T","G","G","A","C">> >>,
       << <<"5","7">>, <<"G","A","C","T","A","T","T","G">> >>,
       << <<"5","8">>, <<"C","C","T","T","A","C","C","T">> >>,
       << <<"5","9">>, <<"G","C","T","A","A","G","T","A">> >>,
       << <<"6","0">>, <<"C","T","T","C","C","T","T","C">> >>,
       << <<"6","1">>, <<"T","C","G","C","T","A","T","G">> >>,
       << <<"6","2">>, <<"C","A","G","A","C","A","A","T">> >>,
       << <<"6","3">>, <<"G","A","G","A","G","T","T","G">> >>,
       << <<"6","4">>, <<"C","C","T","A","G","A","A","T">> >>,
       << <<"6","5">>, <<"C","A","G","C","A","G","C","A">> >>,
       << <<"6","6">>, <<"G","G","C","T","A","G","G","C">> >>,
       << <<"6","7">>, <<"G","G","C","A","T","A","G","G">> >>,
       << <<"6","8">>, <<"G","A","C","G","C","T","A","T">> >>,
       << <<"6","9">>, <<"A","T","C","C","G","A","C","A">> >>,
       << <<"7","0">>, <<"T","T","A","C","T","G","T","C">> >>,
       << <<"7","1">>, <<"T","C","G","A","C","G","G","C">> >>,
       << <<"7","2">>, <<"C","C","T","G","G","A","T","A">> >>,
       << <<"7","3">>, <<"A","A","C","A","T","A","A","T">> >>,
       << <<"7","4">>, <<"A","A","T","G","T","T","G","G">> >>,
       << <<"7","5">>, <<"T","G","G","A","T","A","T","C">> >>,
       << <<"7","6">>, <<"T","A","C","T","T","G","C","A">> >>,
       << <<"7","7">>, <<"A","G","A","A","C","A","T","T">> >>,
       << <<"7","8">>, <<"T","A","C","C","G","C","T","G">> >>,
       << <<"7","9">>, <<"A","G","A","G","G","A","A","T">> >>,
       << <<"8","0">>, <<"A","T","C","C","G","C","A","G">> >>,
       << <<"8","1">>, <<"C","A","T","C","A","G","A","C">> >>,
       << <<"8","2">>, <<"G","G","C","A","G","A","T","A">> >>,
       << <<"8","3">>, <<"G","A","T","C","G","T","G","T">> >>,
       << <<"8","4">>, <<"A","G","C","T","C","T","G","G">> >>,
       << <<"8","5">>, <<"G","T","T","A","G","G","T","C">> >>,
       << <<"8","6">>, <<"C","A","A","G","G","C","G","A">> >>,
       << <<"8","7">>, <<"A","T","G","G","T","A","G","G">> >>,
       << <<"8","8">>, <<"T","C","T","A","G","C","G","A">> >>,
       << <<"8","9">>, <<"A","C","A","T","C","C","T","T">> >>,
       << <<"9","0">>, <<"C","G","A","G","T","T","A","G">> >>,
       << <<"9","1">>, <<"A","T","A","C","C","T","G","T">> >>,
       << <<"9","2">>, <<"G","A","C","C","G","A","G","A">> >>,
       << <<"9","3">>, <<"T","C","A","A","C","T","G","T">> >>,
       << <<"9","4">>, <<"A","C","G","C","A","T","A","G">> >>,
       << <<"9","5">>, <<"G","G","C","T","C","C","T","G">> >>,
       << <<"9","6">>, <<"T","G","C","G","A","C","C","T">> >>,
       << <<"9","7">>, <<"C","C","T","T","G","C","T","G">> >>,
       << <<"9","8">>, <<"T","T","G","A","T","A","A","T">> >>,
       << <<"9","9">>, <<"C","T","G","A","T","T","A","A">> >>,
       << <<"1","0","0">>, <<"T","G","G","T","A","A","C","G">> >>,
       << <<"1","0","1">>, <<"C","T","C","T","A","C","T","T">> >>,
       << <<"1","0","2">>, <<"C","T","A","T","T","C","A","A">> >> >>

\* The dictionary after the assignments d[pairs[i][1]] = pairs[i][2] for i
\* from lo to hi in turn: a later assignment to a key replaces an earlier one.
RECURSIVE Assignments(_, _, _)
Assignments(pairs, lo, hi) ==
    IF lo > hi THEN << >>
    ELSE IF lo = hi THEN pairs[lo][1] :> pairs[lo][2]
    ELSE LET mid == (lo + hi) \div 2
         IN Assignments(pairs, mid + 1, hi) @@ Assignments(pairs, lo, mid)

\* The dictionary a literal with these entries builds.
DictOf(entries) == Assignments(entries, 1, Len(entries))

X1dict == DictOf(X1Entries)

X2dict == DictOf(X2Entries)

\* The keys of a dictionary built from entries, in insertion order.
KeysInOrder(entries) == [i \in 1..Len(entries) |-> entries[i][1]]

(* ------------------------------ dictionaries --------------------------- *)

EmptyDict == << >>

\* d[k] = v
Put(d, k, v) == [x \in (DOMAIN d) \cup {k} |-> IF x = k THEN v ELSE d[x]]

\* The order of the keys of d after d[k] = v: a new key comes last.
PutKey(order, d, k) == IF k \in DOMAIN d THEN order ELSE Append(order, k)

\* collections.Counter: a key never assigned counts 0.
CounterGet(c, k) == IF k \in DOMAIN c THEN c[k] ELSE 0

\* A counter whose increment is lost.
CounterIncLost(c, k) == Put(c, k, CounterGet(c, k))

\* c[k] += 1
CounterInc(c, k) == Put(c, k, CounterGet(c, k) + 1)

\* del d[k]
Remove(d, k) == [x \in (DOMAIN d) \ {k} |-> d[x]]

Values(d) == {d[k] : k \in DOMAIN d}

RECURSIVE SumOver(_, _)
SumOver(c, keys) ==
    IF keys = {} THEN 0
    ELSE LET k == CHOOSE x \in keys : TRUE
             same == {x \in keys : c[x] = c[k]}
         IN c[k] * Cardinality(same) + SumOver(c, keys \ same)

\* sum(c.values())
CounterTotal(c) == SumOver(c, DOMAIN c)

\* A dictionary value that is a path string, and one that is an open file object.
StrVal(path) == [kind |-> "str", val |-> path]

FileVal(path) == [kind |-> "file", val |-> path]

(* ------------------------------ file names ----------------------------- *)

S_Undetermined == <<"U","n","d","e","t","e","r","m","i","n","e","d">>

S_R1 == <<"_","R","1">>

S_R2 == <<"_","R","2">>

S_Indexes == <<"I","n","d","e","x","e","s","_">>

S_R1f == <<"R","1",".","f">>

S_R2f == <<"R","2",".","f">>

\* suffix = "." + inputargs["extension"]
SuffixOf(extension) == <<".">> \o extension

\* XXdict1[...].replace("R1.f", "R2.f")
R2Path(path) == Replace(path, S_R1f, S_R2f)

\* open(path, "w"): the file exists and is empty.
Truncate(dsk, path) == Put(dsk, path, << >>)

\* open(path, "a"): the file exists, with what it held.
Touch(dsk, path) == IF path \in DOMAIN dsk THEN dsk ELSE Put(dsk, path, << >>)

\* open(path, "a").write(text); close(): text is the file's last chunk.
AppendTo(dsk, path, text) == Put(Touch(dsk, path), path, Append(Touch(dsk, path)[path], text))

\* A check that does not look at the third line.
fastq_check_two_lines(fp) ==
    LET read == Slice(fp, 0, 4)
    IN IF Len(read) < 4 THEN "IndexError"
       ELSE IF read[1][1] = "@" /\ Len(read[2]) = Len(read[4]) THEN "True" ELSE "False"

\* fastq_check(infile) on the lines of the file: "True" or "False" as the
\* function returns, "IndexError" when it indexes a line the file does not have.
fastq_check(fp) ==
    LET read == Slice(fp, 0, 4)
    IN IF Len(read) < 3 THEN "IndexError"
       ELSE LET at == read[1][1] = "@"
                plus == read[3][1] = "+"
            IN IF Len(read) < 4 THEN "IndexError"
               ELSE IF at /\ plus /\ Len(read[2]) = Len(read[4]) THEN "True" ELSE "False"

(* ---------------------------- table building --------------------------- *)

\* elements = [y.strip() for y in line.split(",")]
DualElements(line) ==
    LET parts == Split(line, ",") IN [i \in 1..Len(parts) |-> Strip(parts[i])]

\* elements = x.strip("\n").split(",")
SingleElements(x) == Split(StripChars(x, {NL}), ",")

\* The loop of read_index_dual_file from line i on.  t holds XXdict1 with
\* the order of its keys (keyorder), outputreads with the order of its keys
\* (sample_names), usedindexes and err (the exception that ended the loop,
\* if any).  Assigning to a key the dictionary holds leaves the key in its
\* place.
RECURSIVE DualRows(_, _, _, _)
DualRows(lines, i, suffix, t) ==
    IF i > Len(lines) \/ lines[i] = <<NL>> THEN t
    ELSE LET elements == DualElements(lines[i])
         IN IF Len(elements) < 2 THEN [t EXCEPT !.err = "IndexError"]
            ELSE IF SeqRaises(elements[2]) THEN [t EXCEPT !.err = "UnicodeEncodeError"]
            ELSE IF Len(elements) < 3 THEN [t EXCEPT !.err = "IndexError"]
            ELSE LET sample == elements[1]
                     index1 == revcomp(elements[2])
                     index2 == elements[3]
                     compound_index == index2 \o index1
                 IN DualRows(lines, i + 1, suffix,
                      [t EXCEPT
                         !.XXdict1 = Put(@, compound_index, StrVal(sample \o S_R1 \o suffix)),
                         !.keyorder = PutKey(@, t.XXdict1, compound_index),
                         !.outputreads = Put(@, sample, 0),
                         !.sample_names = PutKey(@, t.outputreads, sample),
                         !.usedindexes = Put(@, sample, compound_index)])

\* A table reader that passes over blank lines and reads on.
read_index_every_row(lines, suffix, dsk) ==
    LET dsk2 == Truncate(Truncate(dsk, S_Undetermined \o S_R1 \o suffix),
                         S_Undetermined \o S_R2 \o suffix)
    IN DualRows(SelectSeq(lines, LAMBDA l : l # <<NL>>), 1, suffix,
         [XXdict1 |-> EmptyDict, keyorder |-> << >>,
          outputreads |-> Put(EmptyDict, S_Undetermined, 0),
          sample_names |-> <<S_Undetermined>>,
          usedindexes |-> EmptyDict, disk |-> dsk2, err |-> "none"])

\* read_index_dual_file: failed1 and failed2 are opened for writing, then the
\* sample table is read up to its first blank line.  sample_names is taken
\* from the keys of outputreads as the function returns them (line 521).
read_index_dual_file(lines, suffix, dsk) ==
    LET dsk2 == Truncate(Truncate(dsk, S_Undetermined \o S_R1 \o suffix),
                         S_Undetermined \o S_R2 \o suffix)
    IN DualRows(lines, 1, suffix,
         [XXdict1 |-> EmptyDict, keyorder |-> << >>,
          outputreads |-> Put(EmptyDict, S_Undetermined, 0),
          sample_names |-> <<S_Undetermined>>,
          usedindexes |-> EmptyDict, disk |-> dsk2, err |-> "none"])

\* The loop of read_index_single_file from line i on.
RECURSIVE SingleRows(_, _, _, _)
SingleRows(lines, i, suffix, t) ==
    IF i > Len(lines) \/ lines[i] = <<NL>> THEN t
    ELSE LET elements == SingleElements(lines[i])
             sample == elements[1]
             t1 == [t EXCEPT !.disk = Truncate(@, sample \o suffix)]
         IN IF Len(elements) < 2 THEN [t1 EXCEPT !.err = "IndexError"]
            ELSE IF elements[2] \notin DOMAIN X1dict THEN [t1 EXCEPT !.err = "KeyError"]
            ELSE IF Len(elements) < 3 THEN [t1 EXCEPT !.err = "IndexError"]
            ELSE IF elements[3] \notin DOMAIN X2dict THEN [t1 EXCEPT !.err = "KeyError"]
                 ELSE LET compound_index == X1dict[elements[2]] \o X2dict[elements[3]]
                      IN SingleRows(lines, i + 1, suffix,
                           [t1 EXCEPT
                              !.XXdict = Put(@, compound_index, FileVal(sample \o suffix)),
                              !.outputreads = Put(@, sample, 0),
                              !.usedindexes = Put(@, sample, compound_index)])

\* read_index_single_file: failed is opened for writing, then the sample
\* table is read up to its first blank line.
read_index_single_file(lines, suffix, dsk) ==
    SingleRows(lines, 1, suffix,
      [XXdict |-> EmptyDict, outputreads |-> Put(EmptyDict, S_Undetermined, 0),
       usedindexes |-> EmptyDict, disk |-> Truncate(dsk, S_Undetermined \o suffix),
       err |-> "none"])

\* The lines of the sample table file before its first blank line.
RECURSIVE RowsBeforeBlank(_)
RowsBeforeBlank(lines) ==
    IF Len(lines) = 0 \/ Head(lines) = <<NL>> THEN << >>
    ELSE <<Head(lines)>> \o RowsBeforeBlank(Tail(lines))

\* allXcombs = [x + "-" + y for x in X1dict.keys() for y in X2dict.keys()]
allXcombs ==
    LET k1 == KeysInOrder(X1Entries)
        k2 == KeysInOrder(X2Entries)
    IN Join([a \in 1..Len(k1) |-> [b \in 1..Len(k2) |-> k1[a] \o <<"-">> \o k2[b]]])

\* compound_index = X1dict[x.split("-")[0]] + X2dict[x.split("-")[1]]
CombIndex(x) == X1dict[Split(x, "-")[1]] \o X2dict[Split(x, "-")[2]]

\* The compound index of every combination of combs, in their order.
CombIndexes(combs) == [i \in 1..Len(combs) |-> CombIndex(combs[i])] \o << >>

\* The compound index of every combination, in the order of allXcombs.  No
\* two combinations share one.
allXindexes == CombIndexes(allXcombs)

\* The output name of every combination of combs, "Indexes_" + x.
CombNames(combs) == [i \in 1..Len(combs) |-> S_Indexes \o combs[i]] \o << >>

allXnames == CombNames(allXcombs)

\* The dict that holds vals[i] under keys[i].
Pairing(keys, vals) ==
    Assignments([i \in 1..Len(keys) |-> <<keys[i], vals[i]>>], 1, Len(keys))

\* What the loop assigns for a combination: the compound index under its
\* output name and, in XXdict1, its output name under the compound index.
IndexOfName == Pairing(allXnames, allXindexes)

NameOfIndex == Pairing(allXindexes, allXnames)

\* The place in allXcombs of the combination with a given output name, and
\* of the one with a given compound index.
Places(keys) == Assignments([i \in 1..Len(keys) |-> <<keys[i], i>>], 1, Len(keys))

PlaceOfName == Places(allXnames)

PlaceOfIndex == Places(allXindexes)

\* if compound_index not in usedindexes.values(), in round i of the loop over
\* allXcombs, used being usedindexes before the loop.  As the compound
\* indexes all differ, what earlier rounds added under their own names does
\* not hold the index of combination i; an entry of used that holds it is
\* still there unless its name is the output name of an earlier combination
\* and that round assigned to it (line 546).
RECURSIVE NotAmongUsed(_, _)
NotAmongUsed(i, used) ==
    \A name \in DOMAIN used :
        used[name] = allXindexes[i] =>
            /\ name \in DOMAIN PlaceOfName
            /\ PlaceOfName[name] < i
            /\ NotAmongUsed(PlaceOfName[name], used)

\* The places of the combinations the loop handles, in order: those whose
\* test of line 543 holds.  Only a combination whose index usedindexes held
\* before the loop can fail it.
Skipped(held, used) == {i \in held : ~NotAmongUsed(i, used)}

Unskipped(n, skipped) == SelectSeq([i \in 1..n |-> i], LAMBDA i : i \notin skipped)

HeldPlaces(vals) == {PlaceOfIndex[k] : k \in vals \cap DOMAIN PlaceOfIndex}

AddedCombs(used) ==
    Unskipped(Len(allXnames), Skipped(HeldPlaces(Values(used)), used))

\* The compound indexes of the combinations at places added that are no
\* keys yet, in order: the keys line 544 adds to XXdict1.
KeysAt(places) == [k \in 1..Len(places) |-> allXindexes[places[k]]]

FreshKeys(added, keys) == KeysAt(SelectSeq(added, LAMBDA i : allXindexes[i] \notin keys))

\* Lines 544-546 for the combinations with output names names and compound
\* indexes indexes, fresh being the indexes that are new keys of XXdict1.  open(path, "a") leaves a file that exists as it is; an
\* assignment replaces an entry.
AssignCombs(suffix, g, names, indexes, fresh) ==
    [g EXCEPT
       !.keyorder = @ \o fresh,
       !.disk = [f \in (DOMAIN @) \cup {name \o suffix : name \in names} |->
                   IF f \in DOMAIN @ THEN @[f] ELSE << >>],
       !.XXdict1 = [k \in (DOMAIN @) \cup indexes |->
                      IF k \in indexes THEN FileVal(NameOfIndex[k] \o suffix)
                      ELSE @[k]],
       !.outputreads = [name \in (DOMAIN @) \cup names |->
                          IF name \in names THEN 0 ELSE @[name]],
       !.usedindexes = [name \in (DOMAIN @) \cup names |->
                          IF name \in names THEN IndexOfName[name] ELSE @[name]]]

\* The loop over the combinations at places added.  The first of them opens
\* its file and then assigns into XXdict1.
HandleCombs(suffix, g, added) ==
    IF Len(added) = 0 THEN g
    ELSE IF "XXdict1" \notin g.bound
         THEN [g EXCEPT !.disk = Touch(@, allXnames[added[1]] \o suffix),
                        !.err = "NameError"]
         ELSE AssignCombs(suffix, g,
                          {allXnames[added[k]] : k \in 1..Len(added)},
                          {allXindexes[added[k]] : k \in 1..Len(added)},
                          FreshKeys(added, DOMAIN g.XXdict1))

\* The output-all loop over allXcombs.  g holds the module's names: bound,
\* XXdict1, outputreads, usedindexes, disk and err.  The first round reads
\* usedindexes.
OutputAllCombs(suffix, g) ==
    IF "usedindexes" \notin g.bound THEN [g EXCEPT !.err = "NameError"]
    ELSE HandleCombs(suffix, g, AddedCombs(g.usedindexes))

\* The names the module binds when no sample table is given.
NoTables(dsk) ==
    [bound |-> {}, XXdict1 |-> EmptyDict, XXdict |-> EmptyDict,
     keyorder |-> << >>, sample_names |-> << >>,
     outputreads |-> EmptyDict, usedindexes |-> EmptyDict,
     disk |-> dsk, err |-> "none"]

\* XXdict1, outputreads, usedindexes, failed1, failed2 =
\*    read_index_dual_file(inputargs); sample_names = list(outputreads.keys())
\* dual is what the function did; an exception in it leaves no name bound.
FromDual(dual) ==
    [bound |-> IF dual.err = "none"
               THEN {"XXdict1", "outputreads", "usedindexes",
                     "failed1", "failed2", "sample_names"}
               ELSE {},
     XXdict1 |-> dual.XXdict1, XXdict |-> EmptyDict,
     keyorder |-> dual.keyorder, sample_names |-> dual.sample_names,
     outputreads |-> dual.outputreads, usedindexes |-> dual.usedindexes,
     disk |-> dual.disk, err |-> dual.err]

\* XXdict, outputreads, usedindexes, failed = read_index_single_file(inputargs)
FromSingle(single) ==
    [bound |-> IF single.err = "none"
               THEN {"XXdict", "outputreads", "usedindexes", "failed"}
               ELSE {},
     XXdict1 |-> EmptyDict, XXdict |-> single.XXdict,
     keyorder |-> << >>, sample_names |-> << >>,
     outputreads |-> single.outputreads, usedindexes |-> single.usedindexes,
     disk |-> single.disk, err |-> single.err]

\* if inputargs["indexlist"]: if inputargs["index2"]: ... else: ...
NamedOutputs(args, lines, sfx, dsk) ==
    IF ~args.indexlist THEN NoTables(dsk)
    ELSE IF args.index2 THEN FromDual(read_index_dual_file(lines, sfx, dsk))
         ELSE FromSingle(read_index_single_file(lines, sfx, dsk))

\* if inputargs["outputall"] == True: ...
AllOutputs(args, sfx, g) ==
    IF g.err = "none" /\ args.outputall THEN OutputAllCombs(sfx, g) ELSE g

\* The module's table building: the names it binds and the files it creates.
BuildTables(args, lines, dsk) ==
    AllOutputs(args, SuffixOf(args.extension),
               NamedOutputs(args, lines, SuffixOf(args.extension), dsk))

(* ------------------------------- inputs -------------------------------- *)

Digit(n) == <<"0","1","2","3","4","5","6","7","8","9">>[n + 1]

CCCCCC == <<"C","C","C","C","C","C">>

AAAAAA == <<"A","A","A","A","A","A">>

\* The two halves of the barcodes the read tuples carry: x1 is read from the
\* second index file (input 4) or, with one index file, from positions 6..11
\* of read 1; x2 is the whole sequence of the first index file (input 2).
\* sameid says whether read 2 (input 3) carries the identifier of read 1.
Barcodes ==
    { [x1 |-> AAAAAA, x2 |-> CCCCCC, sameid |-> TRUE],
      [x1 |-> AAAAAA, x2 |-> <<"C","C","C","C","C","G">>, sameid |-> TRUE],
      [x1 |-> AAAAAA, x2 |-> <<"C","C","C","C","C","T">>, sameid |-> FALSE],
      [x1 |-> AAAAAA, x2 |-> <<"C","C","C","C","C","A">>, sameid |-> TRUE],
      [x1 |-> AAAAAA, x2 |-> <<"C","C","C","C","C">>, sameid |-> TRUE],
      [x1 |-> AAAAAA, x2 |-> <<"A","C","C","C","C","G">>, sameid |-> TRUE],
      [x1 |-> X1Entries[1][2], x2 |-> X2Entries[1][2], sameid |-> TRUE],
      [x1 |-> X1Entries[1][2], x2 |-> <<"C","G","T","G","A","A">>, sameid |-> TRUE] }

\* The four physical lines of a FASTQ record.
FastqLines(header, seq, qual) ==
    << <<"@">> \o header \o <<NL>>, seq \o <<NL>>, <<"+", NL>>, qual \o <<NL>> >>

Quals(n) == [i \in 1..n |-> "I"]

Read1Seq(dualindex, b) ==
    IF dualindex THEN <<"A","C","G","T">>
    ELSE <<"N","N","N","N","N","N">> \o b.x1 \o <<"A","C">>

\* The lines input file k (1 read 1, 2 index 1, 3 read 2, 4 index 2) holds
\* for its n-th record when the n-th read tuple carries barcode b.  With cut,
\* the file ends before the record's quality line.
RecordLines(k, n, b, dualindex, cut) ==
    LET id == <<"r", Digit(n)>>
        seq == CASE k = 1 -> Read1Seq(dualindex, b)
                 [] k = 2 -> b.x2
                 [] k = 3 -> <<"G","G","T">>
                 [] k = 4 -> b.x1
        header == CASE k = 1 -> id \o <<" ","1">>
                    [] k = 3 -> (IF b.sameid THEN id ELSE <<"q", Digit(n)>>) \o <<" ","2">>
                    [] OTHER -> id
        lines == FastqLines(header, seq, Quals(Len(seq)))
    IN IF cut THEN DropLast(lines) ELSE lines

\* How the lengths of the input files differ: not at all, read 1 holds one
\* record more, the other files hold one more, or index 2 holds one less.
Tails == {"even", "extra1", "extra234", "short4"}

LengthsOf(n, tail, streams) ==
    [k \in streams |->
        CASE tail = "extra1" /\ k = 1 -> n + 1
          [] tail = "extra234" /\ k # 1 -> n + 1
          [] tail = "short4" /\ k = 4 -> n - 1
          [] OTHER -> n]

\* How a file that fails the sanity check begins: it is empty, its first
\* record lacks its quality line, it has no "@", or its first quality line
\* is shorter than its sequence line.
BadHeads == {"empty", "cut", "noat", "short"}

HeadLines(shape) ==
    CASE shape = "empty" -> << >>
      [] shape = "cut" -> DropLast(FastqLines(<<"r","1">>, <<"A","C">>, <<"I","I">>))
      [] shape = "noat" -> << <<">","r","1",NL>>, <<"A","C",NL>>, <<"+",NL>>, <<"I","I",NL>> >>
      [] shape = "short" -> FastqLines(<<"r","1">>, <<"A","C">>, <<"I">>)

\* Sample tables.  With two index files a row gives the two index sequences,
\* with one it gives keys of X1dict and X2dict.
Row(name, a, b) == name \o <<",">> \o a \o <<",">> \o b \o <<NL>>

S1 == <<"S","1">>

S2 == <<"S","2">>

S3 == <<"S","3">>

\* Sample tables for two index files: one sample, two samples whose indexes
\* are one edit apart, in either row order, and a sample that bears the name
\* the unassigned reads are filed under.
DualTables ==
    { << Row(S1, <<"G","G","G","G","G","G">>, AAAAAA) >>,
      << Row(S1, <<"G","G","G","G","G","G">>, AAAAAA),
         Row(S2, <<"C","G","G","G","G","G">>, AAAAAA) >>,
      << Row(S2, <<"C","G","G","G","G","G">>, AAAAAA),
         Row(S1, <<"G","G","G","G","G","G">>, AAAAAA) >>,
      << Row(S_Undetermined, <<"G","G","G","G","G","G">>, AAAAAA) >> }

SingleTables == { << Row(S1, <<"1">>, <<"1">>) >> }

Thresholds == {0, 1, 2}

\* The thresholds a run is given: with --outputall the one that tells a
\* fuzzy match from an exact one and from none.
ThresholdsOf(outputall) == IF outputall THEN {1} ELSE Thresholds

Extensions == { <<"f","q">> }

Streams(args) == IF args.index2 THEN {1, 2, 3, 4} ELSE {1, 2, 3}

\* How many read tuples a run is followed for: with --outputall, when the
\* tables hold every index pair, fewer than without.
ReadsOf(args) == IF args.outputall THEN MaxReadsAll ELSE MaxReads

(* -------------------------------- state -------------------------------- *)

VARIABLES
    inputargs,      \* the parsed command line
    indexfile,      \* the lines of the sample table file
    disk,           \* the output files: path -> the chunks written, in order
    bound,          \* the names of the module namespace that are assigned
    XXdict1,        \* compound index -> destination (two index files)
    XXdict,         \* compound index -> open file (one index file)
    keyorder,       \* the keys of XXdict1 in the order the dictionary holds them
    sample_names,   \* the keys of outputreads when the sample table was read
    outputreads,    \* the per-destination read counts (a Counter)
    usedindexes,    \* destination name -> compound index
    failed1,        \* the text the handle failed1 holds, not yet in its file
    failed2,        \* the same for failed2
    lens,           \* how many records each opened input file holds
    records,        \* the tuple zip yielded last, one record per input
    count, dmpd_count, fuzzy_count, clash_count,
    fuzzies,        \* identifiers of the reads matched fuzzily
    fq_id, seqX, new_record, new_record1, new_record2,   \* the loop's locals
    pc, err,
    fp,             \* the lines of a file handed to fastq_check and readfq
    logical,        \* what that file was written from: records, line width, ending
    success,        \* what fastq_check returned for fp
    gen,            \* the readfq generator over fp: lines read, `last', where it stands
    yielded         \* the records the generator has yielded from fp

vars == <<inputargs, indexfile, disk, bound, XXdict1, XXdict, keyorder, sample_names,
          outputreads, usedindexes, failed1, failed2, lens, records, count,
          dmpd_count, fuzzy_count, clash_count, fuzzies, fq_id, seqX, new_record,
          new_record1, new_record2, pc, err, fp, logical, success, gen, yielded>>

tables == <<bound, XXdict1, XXdict, keyorder, sample_names, usedindexes>>

handles == <<failed1, failed2>>

counters == <<count, dmpd_count, fuzzy_count, clash_count, fuzzies>>

locals == <<fq_id, seqX, new_record, new_record1, new_record2>>

config == <<inputargs, indexfile>>

\* What the demultiplexing run itself never reads or writes: the state of the
\* functions exercised on their own.
aside == <<fp, logical, success, gen, yielded>>

NoAside ==
    /\ fp = << >> /\ logical = << >>
    /\ success = "none" /\ gen = GenStart /\ yielded = << >>

\* The module namespace before the first statement after args().
NothingBound ==
    /\ disk = EmptyDict
    /\ bound = {}
    /\ XXdict1 = EmptyDict /\ XXdict = EmptyDict
    /\ keyorder = << >> /\ sample_names = << >>
    /\ outputreads = EmptyDict /\ usedindexes = EmptyDict
    /\ failed1 = << >> /\ failed2 = << >>
    /\ lens = << >> /\ records = << >>
    /\ count = 0 /\ dmpd_count = 0 /\ fuzzy_count = 0 /\ clash_count = 0
    /\ fuzzies = << >>
    /\ fq_id = NoneVal /\ seqX = NoneVal
    /\ new_record = NoneVal /\ new_record1 = NoneVal /\ new_record2 = NoneVal
    /\ err = "none"

suffix == SuffixOf(inputargs.extension)

Init ==
    /\ \E i2 \in BOOLEAN, ix \in BOOLEAN, a \in BOOLEAN, dz \in BOOLEAN,
          ex \in Extensions :
          \E t \in ThresholdsOf(a) :
             inputargs = [index2 |-> i2, indexlist |-> ix, threshold |-> t,
                          outputall |-> a, dontgzip |-> dz, extension |-> ex]
    /\ IF ~inputargs.indexlist THEN indexfile = << >>
       ELSE IF inputargs.index2 THEN indexfile \in DualTables
            ELSE indexfile \in SingleTables
    /\ NothingBound
    /\ pc = "start"
    /\ NoAside

\* if inputargs["outputall"] == False and not inputargs["indexlist"]: sys.exit()
CheckArgs ==
    /\ pc = "start"
    /\ pc' = IF ~inputargs.outputall /\ ~inputargs.indexlist THEN "exited" ELSE "check"
    /\ UNCHANGED <<config, aside, disk, tables, handles, outputreads, lens, records,
                   counters, locals, err>>

\* The outcome of the sanity loop over read 1, read 2 and index 1, given the
\* lines each file begins with: the first check that fails ends the run.
SanityOutcome(heads) ==
    LET r == [i \in 1..Len(heads) |-> fastq_check(heads[i])]
        failing == {i \in 1..Len(heads) : r[i] # "True"}
        first == CHOOSE i \in failing : \A j \in failing : i <= j
    IN IF failing = {} THEN "ok"
       ELSE IF r[first] = "False" THEN "exit" ELSE r[first]

\* for f in [read1, read2, index1]: if fastq_check(f) == False: sys.exit()
\* Each file begins with a whole record, or one of them (bad) begins badly.
SanityCheck ==
    /\ pc = "check"
    /\ \E b \in Barcodes, bad \in {0, 1, 2, 3}, shape \in BadHeads :
          LET head(k) == IF k = bad THEN HeadLines(shape)
                         ELSE RecordLines(k, 1, b, inputargs.index2, FALSE)
              outcome == SanityOutcome(<<head(1), head(3), head(2)>>)
          IN /\ pc' = CASE outcome = "ok" -> "tables"
                         [] outcome = "exit" -> "exited"
                         [] OTHER -> "crashed"
             /\ err' = IF outcome \in {"ok", "exit"} THEN err ELSE outcome
    /\ UNCHANGED <<config, aside, disk, tables, handles, outputreads, lens, records,
                   counters, locals>>

\* What table building leaves: g holds the names it bound, the handles
\* failed1 and failed2 hold no text yet.
TablesBuilt(g) ==
    /\ bound' = g.bound
    /\ XXdict1' = g.XXdict1
    /\ XXdict' = g.XXdict
    /\ keyorder' = g.keyorder
    /\ sample_names' = g.sample_names
    /\ outputreads' = g.outputreads
    /\ usedindexes' = g.usedindexes
    /\ disk' = g.disk
    /\ err' = g.err
    /\ pc' = IF g.err = "none" THEN "main" ELSE "crashed"

\* The module-level table building, with and without the output-all block.
GenerateOutputFiles ==
    /\ pc = "tables"
    /\ TablesBuilt(BuildTables(inputargs, indexfile, disk))
    /\ UNCHANGED <<config, aside, handles, lens, records, counters, locals>>

\* The start of the main block: the counters are set and the read files are
\* opened, each behind a readfq generator.  How many records each file holds
\* is the environment's choice; what a record holds is chosen when it is read.
\* The files that passed the sanity check hold at least one record.
OpenReadFiles ==
    /\ pc = "main"
    /\ \E n \in 1..ReadsOf(inputargs), tail \in Tails :
          lens' = LengthsOf(n, tail, Streams(inputargs))
    /\ count' = 0 /\ dmpd_count' = 0 /\ fuzzy_count' = 0 /\ clash_count' = 0
    /\ fuzzies' = << >>
    /\ pc' = "loop"
    /\ UNCHANGED <<config, aside, disk, tables, handles, outputreads, records, locals, err>>

\* zip(fq1, fq2, fq3[, fq4]) has another tuple while no generator is exhausted.
ZipHasNext == \A k \in DOMAIN lens : count < lens[k]

\* next(fq_k): the record readfq yields from the lines of the file's n-th record.
NextRecord(k, n, b, cut) == readfq(RecordLines(k, n, b, inputargs.index2, cut))[1]

\* The inputs whose last record is the n-th: only there can the file end
\* before the record's quality line, and in a file that passed the sanity
\* check only after the first record.
EndingAt(n) == {k \in DOMAIN lens : lens[k] = n /\ (k = 4 \/ n >= 2)}

\* A FASTQ record as the loop writes it.
FormatRecord(id, seq, qual) ==
    <<"@">> \o id \o <<NL>> \o seq \o <<NL, "+", NL>> \o qual \o <<NL>>

\* The first half of an iteration: the next tuple is taken, counted and
\* formatted.  Concatenating or slicing a quality that is None raises TypeError.
FormatRead ==
    /\ pc = "loop"
    /\ ZipHasNext
    /\ count' = count + 1
    /\ \E b \in Barcodes, cut \in {0} \cup EndingAt(count + 1) :
          records' = [k \in DOMAIN lens |-> NextRecord(k, count + 1, b, k = cut)]
    /\ LET record1 == records'[1]
           record2 == records'[2]
           record3 == records'[3]
       IN IF Cardinality(DOMAIN records') = 3
          THEN LET Nseq == Slice(record3[2], 0, 45)
                   X1seq == Slice(record1[2], 6, 12)
                   X2seq == record2[2]
                   readseq == SliceFrom(record1[2], 12)
                   fq_seq == Nseq \o X1seq \o X2seq \o readseq
                   fq_qual == Slice(record3[3], 0, 45) \o Slice(record1[3], 6, 12)
                                \o record2[3] \o SliceFrom(record1[3], 12)
               IN IF NoneVal \in {record1[3], record2[3], record3[3]}
                  THEN /\ pc' = "crashed" /\ err' = "TypeError"
                       /\ fq_id' = record1[1]
                       /\ UNCHANGED <<seqX, new_record, new_record1, new_record2>>
                  ELSE /\ pc' = "demux" /\ err' = err
                       /\ fq_id' = record1[1]
                       /\ new_record' = FormatRecord(fq_id', fq_seq, fq_qual)
                       /\ seqX' = X1seq \o X2seq
                       /\ UNCHANGED <<new_record1, new_record2>>
          ELSE LET record4 == records'[4]
                   X1seq == record4[2]
                   X2seq == record2[2]
               IN IF record1[3] = NoneVal
                  THEN /\ pc' = "crashed" /\ err' = "TypeError"
                       /\ fq_id' = record1[1]
                       /\ UNCHANGED <<seqX, new_record, new_record1, new_record2>>
                  ELSE IF record3[3] = NoneVal
                  THEN /\ pc' = "crashed" /\ err' = "TypeError"
                       /\ fq_id' = record1[1]
                       /\ new_record1' = FormatRecord(fq_id', record1[2], record1[3])
                       /\ UNCHANGED <<seqX, new_record, new_record2>>
                  ELSE /\ pc' = "demux" /\ err' = err
                       /\ fq_id' = record1[1]
                       /\ new_record1' = FormatRecord(fq_id', record1[2], record1[3])
                       /\ new_record2' = FormatRecord(fq_id', record3[2], record3[3])
                       /\ seqX' = X1seq \o X2seq
                       /\ UNCHANGED new_record
    /\ UNCHANGED <<config, aside, disk, tables, handles, outputreads, lens,
                   dmpd_count, fuzzy_count, clash_count, fuzzies>>

\* A loop that never takes the exact branch.
ExactMatchNever(x, d) == FALSE

\* if seqX in XXdict1
ExactMatch(x, d) == x \in DOMAIN d

\* Candidates strictly below the threshold.
MatchesBelow(x, order, threshold) ==
    SelectSeq(order, LAMBDA ndx : LevWithin(ndx, x, threshold - 1))

\* Candidates within two edits, whatever the threshold.
MatchesWithinTwo(x, order, threshold) ==
    SelectSeq(order, LAMBDA ndx : LevWithin(ndx, x, 2))

\* A search that stops at the first candidate it meets.
MatchesFirst(x, order, threshold) ==
    Slice(SelectSeq(order, LAMBDA ndx : LevWithin(ndx, x, threshold)), 0, 1)

\* matches = []; for ndx in XXdict1.keys(): if lev.distance(ndx, seqX) <=
\* threshold: matches.append(ndx) -- order being the keys as the dictionary
\* iterates them.
Matches(x, order, threshold) ==
    SelectSeq(order, LAMBDA ndx : LevWithin(ndx, x, threshold))

\* A loop that accepts a read as soon as it has any candidate.
SomeCandidate(matches) == Len(matches) >= 1

\* if len(matches) == 1
OneCandidate(matches) == Len(matches) = 1

\* The two appends of an accepted read: new_record1 to the destination and
\* new_record2 to the path derived from it.
WriteSample(dsk, path, rec1, rec2) == AppendTo(AppendTo(dsk, path, rec1), R2Path(path), rec2)

\* failed1.write(text): the text joins what the handle holds; the file is
\* as it was.
WriteFailed(held, text) == Append(held, text)

\* The second half of an iteration: the read is matched against XXdict1 and
\* written.  Reading a name that was never assigned raises NameError; open()
\* of a dictionary value that is a file object raises TypeError.
Demultiplex ==
    /\ pc = "demux"
    /\ IF "XXdict1" \notin bound
       THEN /\ pc' = "crashed" /\ err' = "NameError"
            /\ UNCHANGED <<disk, handles, outputreads, dmpd_count, fuzzy_count,
                           clash_count, fuzzies>>
       ELSE IF ExactMatch(seqX, XXdict1)
       THEN IF XXdict1[seqX].kind = "file"
            THEN /\ pc' = "crashed" /\ err' = "TypeError"
                 /\ UNCHANGED <<disk, handles, outputreads, dmpd_count, fuzzy_count,
                                clash_count, fuzzies>>
            ELSE /\ disk' = WriteSample(disk, XXdict1[seqX].val, new_record1, new_record2)
                 /\ dmpd_count' = dmpd_count + 1
                 /\ outputreads' = CounterInc(outputreads, XXdict1[seqX].val)
                 /\ pc' = "loop"
                 /\ UNCHANGED <<handles, fuzzy_count, clash_count, fuzzies, err>>
       ELSE LET matches == Matches(seqX, keyorder, inputargs.threshold)
            IN IF OneCandidate(matches)
               THEN IF XXdict1[matches[1]].kind = "file"
                    THEN /\ pc' = "crashed" /\ err' = "TypeError"
                         /\ UNCHANGED <<disk, handles, outputreads, dmpd_count,
                                        fuzzy_count, clash_count, fuzzies>>
                    ELSE /\ disk' = WriteSample(disk, XXdict1[matches[1]].val,
                                                new_record1, new_record2)
                         /\ dmpd_count' = dmpd_count + 1
                         /\ fuzzy_count' = fuzzy_count + 1
                         /\ fuzzies' = Append(fuzzies, fq_id)
                         /\ outputreads' = CounterInc(outputreads, XXdict1[matches[1]].val)
                         /\ pc' = "loop"
                         /\ UNCHANGED <<handles, clash_count, err>>
               ELSE /\ clash_count' = IF Len(matches) > 1
                                      THEN clash_count + 1 ELSE clash_count
                    /\ failed1' = WriteFailed(failed1, new_record1)
                    /\ failed2' = WriteFailed(failed2, new_record2)
                    /\ outputreads' = CounterInc(outputreads, S_Undetermined)
                    /\ pc' = "loop"
                    /\ UNCHANGED <<disk, dmpd_count, fuzzy_count, fuzzies, err>>
    /\ UNCHANGED <<config, aside, tables, lens, records, count, locals>>

\* zip stops at the first generator that is exhausted: the loop is over.
LoopEnd ==
    /\ pc = "loop"
    /\ ~ZipHasNext
    /\ pc' = "post"
    /\ UNCHANGED <<config, aside, disk, tables, handles, outputreads, lens, records,
                   counters, locals, err>>

\* open(x) for a value x of XXdict1 raises: FileNotFoundError for the path
\* of a file that was never written, TypeError for a file object.
OpenRaises(val, dsk) ==
    IF val.kind = "file" THEN "TypeError"
    ELSE IF val.val \notin DOMAIN dsk THEN "FileNotFoundError" ELSE "none"

\* for x in XXdict1.values(): open(x).close; sort_permissions(open(x).name)
\* The exception the loop ends with, that of the first value open() does
\* not take, order being the keys as the dictionary holds them.
CloseOutputs(bnd, d, order, dsk) ==
    IF "XXdict1" \notin bnd THEN "NameError"
    ELSE IF \A i \in 1..Len(order) : OpenRaises(d[order[i]], dsk) = "none"
         THEN IF "failed1" \notin bnd THEN "NameError" ELSE "none"
         ELSE OpenRaises(d[order[CHOOSE i \in 1..Len(order) :
                                    /\ OpenRaises(d[order[i]], dsk) # "none"
                                    /\ \A j \in 1..(i - 1) :
                                          OpenRaises(d[order[j]], dsk) = "none"]],
                         dsk)

\* The text of a file after its first n characters, in chunks.
RECURSIVE DropChars(_, _)
DropChars(chunks, n) ==
    IF Len(chunks) = 0 \/ n = 0 THEN chunks
    ELSE IF n >= Len(Head(chunks)) THEN DropChars(Tail(chunks), n - Len(Head(chunks)))
         ELSE <<SliceFrom(Head(chunks), n)>> \o Tail(chunks)

\* failed1.close(), held being the text the handle holds.  The handle was
\* opened with "w" and has written nothing yet, so its text goes to the
\* start of the file, over what the file holds there: the file keeps what
\* it holds beyond the length of that text (text of ASCII, a character a
\* byte).  A handle that holds nothing writes nothing.
CloseFailed(dsk, path, held) ==
    IF Len(held) = 0 THEN dsk
    ELSE Put(dsk, path,
             held \o DropChars(IF path \in DOMAIN dsk THEN dsk[path] ELSE << >>,
                               SumLen(held)))

\* outputreads.keys() in insertion order, as far as zero counts go:
\* Undetermined, the samples in row order, the index pairs in allXcombs order.
\* (Keys the loop added hold counts of at least 1.)
CountKeysInOrder(args, lines) ==
    LET rows == RowsBeforeBlank(lines)
    IN <<S_Undetermined>>
         \o [i \in 1..Len(rows) |->
               IF args.index2 THEN DualElements(rows[i])[1] ELSE SingleElements(rows[i])[1]]
         \o [i \in 1..Len(allXcombs) |->
               S_Indexes \o allXcombs[i]]

\* for f in outputreads.keys(): if outputreads[f] == 0: os.remove(f + suffix);
\* del outputreads[f]; del usedindexes[f] -- g holds outputreads,
\* usedindexes, disk and err.  The first key counted 0 is the last one the
\* loop handles: os.remove raises FileNotFoundError for a file that is not
\* there, del raises KeyError for a name usedindexes does not hold, and the
\* iteration raises RuntimeError once the dictionary has changed size.
DeleteUnused(order, sfx, g) ==
    LET zeros == {i \in 1..Len(order) :
                     order[i] \in DOMAIN g.outputreads /\ g.outputreads[order[i]] = 0}
        first == CHOOSE i \in zeros : \A j \in zeros : i <= j
        f == order[first]
    IN IF zeros = {} THEN g
       ELSE IF f \o sfx \notin DOMAIN g.disk THEN [g EXCEPT !.err = "FileNotFoundError"]
       ELSE LET g1 == [g EXCEPT !.disk = Remove(@, f \o sfx),
                                !.outputreads = Remove(@, f)]
            IN IF f \notin DOMAIN g.usedindexes THEN [g1 EXCEPT !.err = "KeyError"]
               ELSE [g1 EXCEPT !.usedindexes = Remove(@, f), !.err = "RuntimeError"]

\* Lines 732-745, g holding outputreads, usedindexes, disk and err: failed1
\* and failed2 are closed and, with --outputall, the index pairs that
\* received no read are deleted.
CloseAndDelete(g, held1, held2) ==
    IF inputargs.outputall
    THEN DeleteUnused(CountKeysInOrder(inputargs, indexfile), suffix,
           [g EXCEPT !.disk = CloseFailed(CloseFailed(@, S_Undetermined \o S_R1 \o suffix, held1),
                                          S_Undetermined \o S_R2 \o suffix, held2)])
    ELSE [g EXCEPT !.disk = CloseFailed(CloseFailed(@, S_Undetermined \o S_R1 \o suffix, held1),
                                        S_Undetermined \o S_R2 \o suffix, held2)]

\* What the lines after the loop leave, closed being the exception of the
\* loop over XXdict1.values(), if any, and g what the lines after it did.
Closed(closed, g) ==
    /\ outputreads' = g.outputreads
    /\ usedindexes' = g.usedindexes
    /\ disk' = g.disk
    /\ failed1' = IF closed = "none" THEN << >> ELSE failed1
    /\ failed2' = IF closed = "none" THEN << >> ELSE failed2
    /\ err' = IF g.err = "none" THEN err ELSE g.err
    /\ pc' = IF g.err = "none" THEN "done" ELSE "crashed"

\* After the loop (lines 728-745): the sample files are opened once more,
\* the handles failed1 and failed2 are closed, which writes the text they
\* hold, and, with --outputall, the index pairs that received no read are
\* deleted.
CloseAndCleanUp ==
    /\ pc = "post"
    /\ IF CloseOutputs(bound, XXdict1, keyorder, disk) # "none"
       THEN Closed(CloseOutputs(bound, XXdict1, keyorder, disk),
                   [outputreads |-> outputreads, usedindexes |-> usedindexes,
                    disk |-> disk, err |-> CloseOutputs(bound, XXdict1, keyorder, disk)])
       ELSE Closed("none",
                   CloseAndDelete([outputreads |-> outputreads, usedindexes |-> usedindexes,
                                   disk |-> disk, err |-> "none"], failed1, failed2))
    /\ UNCHANGED <<config, aside, bound, XXdict1, XXdict, keyorder, sample_names,
                   lens, records, counters, locals>>

S_gz == <<".","g","z">>

\* What gzip writes for the text of a file: one member, the text within.
Gzip(chunks) == << <<"gzip">> \o Join(chunks) >>

\* with open(path) as infile, gzip.open(path + ".gz", "wt") as outfile:
\*     outfile.writelines(infile)
\* try: os.remove(path)
\* open() of a file that is not there raises FileNotFoundError before the
\* compressed file is made.
CompressFile(path, g) ==
    IF path \notin DOMAIN g.disk THEN [g EXCEPT !.err = "FileNotFoundError"]
    ELSE [g EXCEPT !.disk = Remove(Put(@, path \o S_gz, Gzip(@[path])), path)]

\* The R1 file of sample f, then its R2 file.
CompressBoth(f, sfx, g) ==
    IF CompressFile(f \o S_R1 \o sfx, g).err # "none"
    THEN CompressFile(f \o S_R1 \o sfx, g)
    ELSE CompressFile(f \o S_R2 \o sfx, CompressFile(f \o S_R1 \o sfx, g))

\* for f in sample_names: ... from the i-th name on, g holding disk and err.
RECURSIVE CompressFrom(_, _, _, _)
CompressFrom(names, i, sfx, g) ==
    IF i > Len(names) \/ g.err # "none" THEN g
    ELSE CompressFrom(names, i + 1, sfx, CompressBoth(names[i], sfx, g))

\* What the compression leaves, g holding disk and err.
Compressed(g) ==
    /\ disk' = g.disk
    /\ err' = IF g.err = "none" THEN err ELSE g.err
    /\ pc' = IF g.err = "none" THEN "compressed" ELSE "crashed"

\* if inputargs["dontgzip"] == False: for f in sample_names: the R1 and the
\* R2 file of Undetermined and of every sample are compressed and removed.
Compress ==
    /\ pc = "done"
    /\ ~inputargs.dontgzip
    /\ IF "sample_names" \notin bound
       THEN Compressed([disk |-> disk, err |-> "NameError"])
       ELSE Compressed(CompressFrom(sample_names, 1, suffix, [disk |-> disk, err |-> "none"]))
    /\ UNCHANGED <<config, aside, tables, handles, outputreads, lens, records,
                   counters, locals>>

Next ==
    \/ CheckArgs
    \/ SanityCheck
    \/ GenerateOutputFiles
    \/ OpenReadFiles
    \/ FormatRead
    \/ Demultiplex
    \/ LoopEnd
    \/ CloseAndCleanUp
    \/ Compress

Spec == Init /\ [][Next]_vars

(* ------------------------- the branches of the loop -------------------- *)

\* The branch the loop takes for barcode x when the dictionary d holds its
\* keys in the given order, and the key the read is accepted for.
ClassifyRead(x, d, order, threshold) ==
    IF ExactMatch(x, d) THEN [kind |-> "Exact", key |-> x]
    ELSE IF OneCandidate(Matches(x, order, threshold))
         THEN [kind |-> "Fuzzy", key |-> Matches(x, order, threshold)[1]]
         ELSE IF Len(Matches(x, order, threshold)) > 1
              THEN [kind |-> "Ambiguous", key |-> NoneVal]
              ELSE [kind |-> "Unmatched", key |-> NoneVal]

\* The orders in which a dictionary can hold its keys.
KeyOrders(d) ==
    {o \in [1..Cardinality(DOMAIN d) -> DOMAIN d] :
        \A i, j \in DOMAIN o : i # j => o[i] # o[j]}

(* ----------------------- table building on its own -------------------- *)

Bases == {"A", "C", "G", "T", "N"}

\* The index sequences of 1 to n bases, N among them.
IndexSeqs(n) == UNION {[1..k -> Bases] : k \in 1..n}

\* The first line of a sample table file: a blank line, or a row for S1 with
\* any index 1 sequence.
FirstLines ==
    {<<NL>>} \cup {Row(S1, x, <<"A","C","N">>) : x \in IndexSeqs(MaxIndexLen)}

\* The lines after the first: blank lines and the rows of two more samples.
LaterLines ==
    {<<NL>>, Row(S2, <<"C","G","G">>, <<"A","A">>), Row(S3, <<"N","T">>, <<"G","A">>)}

TableFiles ==
    {<<l>> \o rest : l \in FirstLines,
                     rest \in UNION {[1..k -> LaterLines] : k \in 0..(MaxRows - 1)}}

\* The table files a run is given: with --outputall, when the tables hold
\* every index pair, those of one line.
TableFilesOf(outputall) ==
    IF outputall THEN {f \in TableFiles : Len(f) = 1} ELSE TableFiles

\* A dual-index run given a sample table file with blank lines in it.
InitTables ==
    /\ \E a \in BOOLEAN :
          inputargs = [index2 |-> TRUE, indexlist |-> TRUE, threshold |-> 2,
                       outputall |-> a, dontgzip |-> FALSE,
                       extension |-> <<"f","q">>]
    /\ indexfile \in TableFilesOf(inputargs.outputall)
    /\ NothingBound
    /\ pc = "start"
    /\ NoAside

NextTables ==
    \/ CheckArgs
    \/ SanityCheck
    \/ GenerateOutputFiles

SpecTables == InitTables /\ [][NextTables]_vars

(* --------------------- output file names on their own ------------------ *)

\* Values of --extension: the default and one that does not begin with "f".
AnyExtensions == { <<"f","q">>, <<"t","x","t">> }

\* A sample name that holds the text the R2 path is derived by.
S_named_R1f == <<"R","1",".","f">>

NamedTables ==
    DualTables \cup { << Row(S_named_R1f, <<"G","G","G","G","G","G">>, AAAAAA) >> }

\* A run with two index files and a sample table, the extension and the
\* sample names being the operator's choice.
InitNames ==
    /\ \E t \in Thresholds, ex \in AnyExtensions :
          inputargs = [index2 |-> TRUE, indexlist |-> TRUE, threshold |-> t,
                       outputall |-> FALSE, dontgzip |-> FALSE,
                       extension |-> ex]
    /\ indexfile \in NamedTables
    /\ NothingBound
    /\ pc = "start"
    /\ NoAside

SpecNames == InitNames /\ [][Next]_vars

(* ------------------- sample tables with colliding rows ----------------- *)

\* Sample table files for either index mode: one row, two rows with the same
\* indexes under different sample names, two rows with different indexes;
\* and, with two index files, a row named as the output of index pair 1-1
\* that holds the indexes of pair 2-2.
CollidingTables(dualindex) ==
    IF dualindex
    THEN { << Row(S_Indexes \o <<"1","-","1">>,
                  <<"C","G","A","T","G","T">>, <<"C","G","A","T","G","T">>) >>,
           << Row(S1, <<"G","G","G","G","G","G">>, AAAAAA) >>,
           << Row(S1, <<"G","G","G","G","G","G">>, AAAAAA),
              Row(S2, <<"G","G","G","G","G","G">>, AAAAAA) >>,
           << Row(S1, <<"G","G","G","G","G","G">>, AAAAAA),
              Row(S2, <<"C","G","G","G","G","G">>, AAAAAA) >> }
    ELSE { << Row(S1, <<"1">>, <<"1">>) >>,
           << Row(S1, <<"1">>, <<"1">>), Row(S2, <<"1">>, <<"1">>) >>,
           << Row(S1, <<"1">>, <<"1">>), Row(S2, <<"1">>, <<"2">>) >> }

\* A run given a sample table file, up to the end of table building.
InitCollide ==
    /\ \E i2 \in BOOLEAN, a \in BOOLEAN, t \in Thresholds :
          inputargs = [index2 |-> i2, indexlist |-> TRUE, threshold |-> t,
                       outputall |-> a, dontgzip |-> FALSE,
                       extension |-> <<"f","q">>]
    /\ indexfile \in CollidingTables(inputargs.index2)
    /\ NothingBound
    /\ pc = "start"
    /\ NoAside

SpecCollide == InitCollide /\ [][NextTables]_vars

(* ------------------- the FASTQ functions on their own ------------------ *)

TAB == "\t"

\* Header lines: with nothing after the identifier, with a comment after a
\* space, with a comment after a tab, and a FASTA-style header.
ReaderHeaders ==
    { <<"@","r","1">>, <<"@","r","1"," ","x">>, <<"@","r","1",TAB,"x">>,
      <<">","r","1"," ","x">> }

\* Sequence and quality blocks of equal length; the first quality block has
\* the characters that begin header and separator lines.
ReaderBodies ==
    { [seq |-> <<"A","C","G","T">>, qual |-> <<"I","@","+",">">>],
      [seq |-> <<"A","C">>, qual |-> <<"I","I">>],
      [seq |-> <<"A","C","G","T","A","C","G","T","A","C">>, qual |-> Quals(10)] }

LogicalRecords ==
    {[header |-> h, seq |-> b.seq, qual |-> b.qual] : h \in ReaderHeaders, b \in ReaderBodies}

\* The width at which sequence and quality blocks are wrapped, 0 for one line.
Widths == {0, 1, 3}

\* How the file ends: with its last record whole, with its last quality block
\* one character short or one long, without any quality line, or without the
\* final newline.
Endings == {"whole", "short", "long", "cut", "nonl"}

\* The physical lines of a block wrapped at width w.
RECURSIVE Wrapped(_, _)
Wrapped(s, w) ==
    IF w = 0 \/ Len(s) <= w THEN << s \o <<NL>> >>
    ELSE << Slice(s, 0, w) \o <<NL>> >> \o Wrapped(SliceFrom(s, w), w)

RecordFileLines(r, w, withqual) ==
    << r.header \o <<NL>> >> \o Wrapped(r.seq, w) \o << <<"+", NL>> >>
       \o (IF withqual THEN Wrapped(r.qual, w) ELSE << >>)

\* The lines of the file written from the records recs at width w.
RECURSIVE FileLines(_, _, _)
FileLines(recs, w, ending) ==
    IF Len(recs) = 0 THEN << >>
    ELSE IF Len(recs) > 1
         THEN RecordFileLines(Head(recs), w, TRUE) \o FileLines(Tail(recs), w, ending)
         ELSE LET r == Head(recs)
                  q == CASE ending = "short" -> DropLast(r.qual)
                         [] ending = "long" -> r.qual \o <<"I">>
                         [] OTHER -> r.qual
                  lines == RecordFileLines([r EXCEPT !.qual = q], w, ending # "cut")
              IN IF ending = "nonl"
                 THEN DropLast(lines) \o << DropLast(lines[Len(lines)]) >>
                 ELSE lines

\* A file is handed to fastq_check and then to readfq; nothing else runs.
InitReader ==
    /\ inputargs = [index2 |-> FALSE, indexlist |-> FALSE, threshold |-> 0,
                    outputall |-> FALSE, dontgzip |-> FALSE,
                    extension |-> <<"f","q">>]
    /\ indexfile = << >>
    /\ NothingBound
    /\ \E n \in 1..MaxRecords, w \in Widths, e \in Endings :
          \E recs \in [1..n -> LogicalRecords] :
             logical = [records |-> recs, width |-> w, ending |-> e]
    /\ fp = FileLines(logical.records, logical.width, logical.ending)
    /\ success = "none" /\ gen = GenStart /\ yielded = << >>
    /\ pc = "file"

run == <<inputargs, indexfile, disk, bound, XXdict1, XXdict, keyorder, sample_names,
         outputreads, usedindexes, failed1, failed2, lens, records, count,
         dmpd_count, fuzzy_count, clash_count, fuzzies, fq_id, seqX, new_record,
         new_record1, new_record2, err>>

\* success = fastq_check(f)
CheckFile ==
    /\ pc = "file"
    /\ success' = fastq_check(fp)
    /\ pc' = "checked"
    /\ UNCHANGED <<run, fp, logical, gen, yielded>>

\* for record in readfq(open(f)): one next() of the generator.  It runs to
\* its next yield and hands over a record, or it returns and the loop ends.
ReadFile ==
    /\ pc = "checked"
    /\ gen' = ReadFqNext(fp, gen).gen
    /\ yielded' = IF ReadFqNext(fp, gen).stop THEN yielded
                  ELSE Append(yielded, ReadFqNext(fp, gen).rec)
    /\ pc' = IF ReadFqNext(fp, gen).stop THEN "read" ELSE "checked"
    /\ UNCHANGED <<run, fp, logical, success>>

NextReader ==
    \/ CheckFile
    \/ ReadFile

SpecReader == InitReader /\ [][NextReader]_vars

(* ------------------------------ properties ----------------------------- *)

\* The step appends text to the file at path and leaves what it held in place.
Appended(path, text) ==
    /\ path \in DOMAIN disk'
    /\ disk'[path] = (IF path \in DOMAIN disk THEN disk[path] ELSE << >>) \o <<text>>

\* The step writes the read to the handles of the two Undetermined files,
\* which hold it; no file changes.
HeldUndetermined ==
    /\ failed1' = Append(failed1, new_record1)
    /\ failed2' = Append(failed2, new_record2)
    /\ disk' = disk

\* What the file at path holds after the step, nothing when it is not there.
FileAfter(path) == IF path \in DOMAIN disk' THEN disk'[path] ELSE << >>

\* The step closes the handles of the two Undetermined files: each file
\* begins with the records its handle held, in the order they were written.
UndeterminedLanded ==
    /\ failed1' = << >> /\ failed2' = << >>
    /\ SubSeq(FileAfter(S_Undetermined \o S_R1 \o suffix), 1, Len(failed1)) = failed1
    /\ SubSeq(FileAfter(S_Undetermined \o S_R2 \o suffix), 1, Len(failed2)) = failed2

\* The step is the closing of the output files, and it succeeds.
Closing == pc = "post" /\ pc' = "done"

\* The step writes the read to the R1 and R2 files of destination dest.
WrittenTo(dest) ==
    /\ Appended(dest, new_record1)
    /\ Appended(R2Path(dest), new_record2)

UndeterminedCount == CounterGet(outputreads, S_Undetermined)

\* The keys of the index table that lead to a sample's destination.
SampleKeys == {k \in DOMAIN XXdict1 : XXdict1[k].kind = "str"}

\* The keys of the index table within the threshold of the read's barcode.
KeysWithin == {k \in DOMAIN XXdict1 : LevWithin(k, seqX, inputargs.threshold)}

\* The loop is about to match a barcode against the index table XXdict1.
Matching == pc = "demux" /\ "XXdict1" \in bound

\* No entry of the count table other than Undetermined changes in the step.
SampleCountsUnchanged ==
    \A k \in (DOMAIN outputreads' \cup DOMAIN outputreads) \ {S_Undetermined} :
        CounterGet(outputreads', k) = CounterGet(outputreads, k)

Last(q) == q[Len(q)]

Key_S1 == AAAAAA \o CCCCCC

Key_S2 == AAAAAA \o <<"C","C","C","C","C","G">>

File_S1_R1 == S1 \o S_R1 \o <<".","f","q">>

File_Undetermined_R1 == S_Undetermined \o S_R1 \o <<".","f","q">>

\* C1: a read whose barcode equals a key of the index table is routed to that
\* key's sample destination and raises the demultiplexed count by one, while
\* the fuzzy counter, the clash counter, the fuzzy list and the Undetermined
\* count stay as they are, whatever the threshold and however many other keys
\* lie within it.
C1_ExactRouted ==
    [][ (Matching /\ seqX \in SampleKeys) =>
          /\ WrittenTo(XXdict1[seqX].val)
          /\ dmpd_count' = dmpd_count + 1
          /\ fuzzy_count' = fuzzy_count
          /\ clash_count' = clash_count
          /\ fuzzies' = fuzzies
          /\ UndeterminedCount' = UndeterminedCount
          /\ pc' = "loop" ]_vars

\* An exact read has been routed to S1 although S2's key is within the threshold.
C1_Witness ==
    /\ pc = "loop"
    /\ seqX = Key_S1
    /\ DOMAIN XXdict1 = {Key_S1, Key_S2}
    /\ LevDistance(Key_S2, seqX) <= inputargs.threshold
    /\ dmpd_count = 1 /\ fuzzy_count = 0 /\ clash_count = 0
    /\ File_S1_R1 \in DOMAIN disk
    /\ disk[File_S1_R1] = <<new_record1>>

\* C2: a read whose barcode is not a key of the index table and is within the
\* threshold (Levenshtein distance) of exactly one key is routed to that key's
\* sample destination; the demultiplexed and fuzzy counters rise by one and
\* the read identifier is appended to the fuzzy list.
C2_FuzzyRouted ==
    [][ (Matching /\ seqX \notin DOMAIN XXdict1) =>
          \A k \in SampleKeys :
             KeysWithin = {k} =>
                /\ WrittenTo(XXdict1[k].val)
                /\ dmpd_count' = dmpd_count + 1
                /\ fuzzy_count' = fuzzy_count + 1
                /\ fuzzies' = Append(fuzzies, fq_id)
                /\ clash_count' = clash_count
                /\ UndeterminedCount' = UndeterminedCount
                /\ pc' = "loop" ]_vars

\* Table {S1: AAAAAACCCCCC}, threshold 2, barcode AAAAAACCCCCT: distance 1,
\* and the read has been routed to S1 as a fuzzy match.
C2_Witness ==
    /\ pc = "loop"
    /\ inputargs.threshold = 2
    /\ DOMAIN XXdict1 = {Key_S1}
    /\ seqX = AAAAAA \o <<"C","C","C","C","C","T">>
    /\ LevDistance(Key_S1, seqX) = 1
    /\ fuzzy_count = 1 /\ dmpd_count = 1
    /\ fuzzies = <<fq_id>>
    /\ File_S1_R1 \in DOMAIN disk
    /\ disk[File_S1_R1] = <<new_record1>>

\* The effects of an ambiguous read: the handles of the Undetermined files
\* receive it, the clash counter rises by one and no sample's count moves.
AmbiguousEffects ==
    /\ HeldUndetermined
    /\ clash_count' = clash_count + 1
    /\ dmpd_count' = dmpd_count
    /\ fuzzy_count' = fuzzy_count
    /\ SampleCountsUnchanged
    /\ pc' = "loop"

\* C3 as stated: a read whose barcode is within the threshold of two or more
\* keys of the index table is written to the handles of the Undetermined
\* files, raises the clash counter by one and moves no sample's count; and
\* when the output files are closed, the Undetermined files receive what
\* their handles hold.
C3_AmbiguousAsStated ==
    [][ /\ (Matching /\ Cardinality(KeysWithin) >= 2) => AmbiguousEffects
        /\ Closing => UndeterminedLanded ]_vars

\* C3: a read whose barcode is not itself a key of the index table and is
\* within the threshold of two or more keys is written to the handles of the
\* Undetermined files, raises the clash counter by one and moves no sample's
\* count; and when the output files are closed, the Undetermined files
\* receive what their handles hold.
C3_AmbiguousNotExact ==
    [][ /\ (Matching /\ seqX \notin DOMAIN XXdict1 /\ Cardinality(KeysWithin) >= 2)
              => AmbiguousEffects
        /\ Closing => UndeterminedLanded ]_vars

\* Table {S1: AAAAAACCCCCC, S2: AAAAAACCCCCG}, threshold 2: two reads were
\* accepted, the third had the barcode AAAAAACCCCCA, both keys at distance
\* 1, and the output files have been closed: the Undetermined R1 file holds
\* the record of the third read and nothing else, no sample file holds it.
C3_Witness ==
    /\ pc = "done"
    /\ inputargs.threshold = 2
    /\ DOMAIN XXdict1 = {Key_S1, Key_S2}
    /\ seqX = AAAAAA \o <<"C","C","C","C","C","A">>
    /\ LevDistance(Key_S1, seqX) = 1 /\ LevDistance(Key_S2, seqX) = 1
    /\ count = 3 /\ clash_count = 1 /\ dmpd_count = 2
    /\ failed1 = << >>
    /\ disk[File_Undetermined_R1] = <<new_record1>>
    /\ new_record1 \notin {disk[File_S1_R1][i] : i \in 1..Len(disk[File_S1_R1])}

\* C4: with threshold 0 a read whose barcode is not a key of the index table
\* is written to the handles of the Undetermined files and counted under
\* Undetermined only, the fuzzy counter, the clash counter and the fuzzy list
\* never leave their initial values, and when the output files are closed,
\* the Undetermined files receive what their handles hold.
C4_ThresholdZero ==
    [][ inputargs.threshold = 0 =>
          /\ fuzzy_count' = 0 /\ clash_count' = 0 /\ fuzzies' = << >>
          /\ (Matching /\ seqX \notin DOMAIN XXdict1) =>
                /\ HeldUndetermined
                /\ UndeterminedCount' = UndeterminedCount + 1
                /\ SampleCountsUnchanged
                /\ dmpd_count' = dmpd_count
                /\ pc' = "loop"
          /\ Closing => UndeterminedLanded ]_vars

\* With threshold 0 and the table {S1: AAAAAACCCCCC} one read was accepted
\* for S1, the next had a barcode one substitution away from the key, and
\* the output files have been closed: the Undetermined R1 file holds the
\* record of the second read.
C4_Witness ==
    /\ pc = "done"
    /\ inputargs.threshold = 0
    /\ DOMAIN XXdict1 = {Key_S1}
    /\ S1 \in DOMAIN usedindexes
    /\ seqX = AAAAAA \o <<"C","C","C","C","C","T">>
    /\ UndeterminedCount = 1 /\ count = 2 /\ dmpd_count = 1
    /\ fuzzy_count = 0 /\ fuzzies = << >>
    /\ failed1 = << >>
    /\ disk[File_Undetermined_R1] = <<new_record1>>

\* C5: between iterations and after the loop, the counts of the count table,
\* summed over all its entries, equal the number of read tuples processed.
C5_Conservation ==
    pc \in {"loop", "post"} => CounterTotal(outputreads) = count

\* The loop is over after two reads, one accepted and one undetermined.
C5_Witness ==
    /\ pc = "post"
    /\ count = 2
    /\ dmpd_count = 1
    /\ UndeterminedCount = 1
    /\ CounterTotal(outputreads) = 2

\* The sample names the table file configured, and the one a key belongs to.
SampleNames ==
    {n \in DOMAIN usedindexes :
        usedindexes[n] \in DOMAIN XXdict1 /\ XXdict1[usedindexes[n]].kind = "str"}

SampleOf(k) == CHOOSE n \in SampleNames : usedindexes[n] = k

\* The key the read is accepted for, if any: the barcode itself, or the one
\* key within the threshold.
AcceptedFor(k) ==
    \/ seqX = k
    \/ seqX \notin DOMAIN XXdict1 /\ KeysWithin = {k}

\* C6: a read accepted, exactly or fuzzily, for a sample raises by one the
\* count entry keyed by that sample's name, the entry table building set to 0,
\* and leaves every other sample's entry and the Undetermined entry alone.
C6_CountKeyedBySample ==
    [][ Matching =>
          \A k \in SampleKeys :
             AcceptedFor(k) =>
                /\ CounterGet(outputreads', SampleOf(k)) = CounterGet(outputreads, SampleOf(k)) + 1
                /\ \A n \in SampleNames \ {SampleOf(k)} :
                      CounterGet(outputreads', n) = CounterGet(outputreads, n)
                /\ UndeterminedCount' = UndeterminedCount ]_vars

\* The input files do not all hold the same number of records.
LengthsDiffer == \E j, k \in DOMAIN lens : lens[j] # lens[k]

\* Every record of the tuple taken last came with its quality.
TupleIntact == \A k \in DOMAIN records : records[k][3] # NoneVal

MinLength == CHOOSE n \in {lens[k] : k \in DOMAIN lens} : \A k \in DOMAIN lens : n <= lens[k]

\* C7: when the input streams hold different numbers of records, the loop
\* raises no error and ends after exactly as many tuples as the shortest
\* stream holds records.
C7_StopsAtShortest ==
    (pc \in {"loop", "demux", "post", "crashed"} /\ lens # << >> /\ LengthsDiffer /\ TupleIntact) =>
        /\ pc # "crashed"
        /\ count <= MinLength
        /\ pc = "post" => count = MinLength

\* The tuple the loop has just taken holds a record without quality.
TookDegraded ==
    /\ pc = "loop" /\ count' = count + 1
    /\ \E k \in DOMAIN records' : records'[k][3] = NoneVal

\* C8: a read tuple holding a record the reader yielded without quality, its
\* file having ended before the quality line, goes on to be classified and
\* routed, and the run is not aborted.
C8_DegradedTolerated ==
    [][ TookDegraded => pc' = "demux" ]_vars

\* C9: with one index file the barcode is characters 6..11 of read 1 followed
\* by the sequence of the index read, and a read whose barcode equals a
\* configured sample's key is appended to that sample's file and counted for
\* that sample.
C9_SingleIndexRouted ==
    [][ (pc = "demux" /\ ~inputargs.index2) =>
          /\ seqX = Slice(records[1][2], 6, 12) \o records[2][2]
          /\ \A n \in DOMAIN usedindexes :
                usedindexes[n] = seqX =>
                   /\ Appended(n \o suffix, new_record)
                   /\ CounterGet(outputreads', n) = CounterGet(outputreads, n) + 1
                   /\ pc' = "loop" ]_vars

\* The files the step made longer, and what it put at their ends.
Grown == {f \in DOMAIN disk' : f \notin DOMAIN disk \/ disk'[f] # disk[f]}

\* C10: with two index files the barcode is the sequence of index read 2
\* followed by that of index read 1, and the two records a read writes are
\* read 1 and read 2 as their own files gave them: identifier, sequence and
\* quality, the first to an R1 file and the second to an R2 file, or the
\* first to the handle of the Undetermined R1 file and the second to that of
\* the Undetermined R2 file.
C10_PayloadVerbatim ==
    [][ (pc = "demux" /\ inputargs.index2 /\ pc' = "loop") =>
          /\ seqX = records[4][2] \o records[2][2]
          /\ \/ \E f1, f2 \in Grown :
                   /\ Grown = {f1, f2}
                   /\ f2 = R2Path(f1)
                   /\ Last(disk'[f1]) = FormatRecord(records[1][1], records[1][2], records[1][3])
                   /\ Last(disk'[f2]) = FormatRecord(records[3][1], records[3][2], records[3][3])
                   /\ failed1' = failed1 /\ failed2' = failed2
             \/ /\ Grown = {}
                /\ failed1' = Append(failed1, FormatRecord(records[1][1], records[1][2],
                                                           records[1][3]))
                /\ failed2' = Append(failed2, FormatRecord(records[3][1], records[3][2],
                                                           records[3][3])) ]_vars

\* What the loop does with a read of outcome o: a read accepted for a key
\* goes to the files of the key's destination and is counted for it, any
\* other read goes to the handles of the Undetermined files and is counted
\* under Undetermined.
OutcomeTaken(o) ==
    /\ pc' = "loop"
    /\ IF o.kind \in {"Exact", "Fuzzy"}
       THEN /\ WrittenTo(XXdict1[o.key].val)
            /\ failed1' = failed1 /\ failed2' = failed2
            /\ outputreads' = CounterInc(outputreads, XXdict1[o.key].val)
            /\ dmpd_count' = dmpd_count + 1
            /\ fuzzy_count' = fuzzy_count + (IF o.kind = "Fuzzy" THEN 1 ELSE 0)
            /\ clash_count' = clash_count
       ELSE /\ HeldUndetermined
            /\ outputreads' = CounterInc(outputreads, S_Undetermined)
            /\ dmpd_count' = dmpd_count
            /\ fuzzy_count' = fuzzy_count
            /\ clash_count' = clash_count + (IF o.kind = "Ambiguous" THEN 1 ELSE 0)

\* C11: in a run on a sample table alone, the branch the loop takes for a
\* barcode and the key it accepts the read for are the same in whatever
\* order the table holds its keys, what the step does (the destination
\* written, the counters moved) is what that outcome asks for, whatever the
\* loop did before, and no step of the loop changes the table or the order
\* of its keys.
C11_OrderFree ==
    [][ /\ (Matching /\ ~inputargs.outputall) =>
              /\ \A order \in KeyOrders(XXdict1) :
                    ClassifyRead(seqX, XXdict1, order, inputargs.threshold)
                       = ClassifyRead(seqX, XXdict1, keyorder, inputargs.threshold)
              /\ OutcomeTaken(ClassifyRead(seqX, XXdict1, keyorder, inputargs.threshold))
        /\ pc \in {"loop", "demux"} =>
              /\ XXdict1' = XXdict1
              /\ keyorder' = keyorder ]_vars

\* The table holds the key of S2 before that of S1, and two reads with a
\* barcode within the threshold of both keys have been classified, the
\* second with the barcode AAAAAACCCCCA: both went to the Undetermined
\* handles as clashes.
C11_Witness ==
    /\ pc = "loop"
    /\ count = 2
    /\ keyorder = <<Key_S2, Key_S1>>
    /\ seqX = AAAAAA \o <<"C","C","C","C","C","A">>
    /\ Cardinality(KeysWithin) = 2
    /\ clash_count = 2
    /\ Len(failed1) = 2 /\ Len(failed2) = 2

\* The lines a file holds for a record the reader yielded from it.
RecordAsLines(r) ==
    << <<"@">> \o r[1] \o <<NL>>, r[2] \o <<NL>>, <<"+", NL>> >>
       \o (IF r[3] = NoneVal THEN << >> ELSE << r[3] \o <<NL>> >>)

\* C12: no read is classified unless every input file (read 1, read 2,
\* index 1 and, with two index files, index 2) passes the FASTQ sanity check:
\* once the first tuple has been classified, the first record of each file
\* is one that fastq_check accepts.
C12_EveryInputChecked ==
    (count = 1 /\ pc \in {"loop", "post"}) =>
        \A k \in DOMAIN records : fastq_check(RecordAsLines(records[k])) = "True"

\* C13: fastq_check looks at the first four physical lines only, and returns
\* success exactly when the first begins with "@", the third begins with "+"
\* and the second and fourth are equally long; a record with ten bases passes
\* with ten quality characters and fails with nine.
C13_SanityCheck ==
    pc \in {"checked", "read"} =>
        /\ success = "True" <=>
              /\ Len(fp) >= 4
              /\ fp[1][1] = "@"
              /\ fp[3][1] = "+"
              /\ Len(fp[2]) = Len(fp[4])
        /\ Len(fp) >= 4 =>
              \A more \in {<< >>, << <<"x", NL>> >>} :
                 fastq_check(Slice(fp, 0, 4) \o more) = success
        /\ (Len(logical.records) = 1 /\ logical.width = 0
              /\ logical.records[1].header[1] = "@"
              /\ Len(logical.records[1].seq) = 10) =>
                 /\ logical.ending = "whole" => success = "True"
                 /\ logical.ending = "short" => success = "False"

\* A file of one record with ten bases and ten quality characters, followed
\* by a second record, has passed the check.
C13_Witness ==
    /\ pc = "checked"
    /\ success = "True"
    /\ Len(fp) > 4
    /\ Len(fp[2]) = 11 /\ Len(fp[4]) = 11

Reversed(x) == [i \in 1..Len(x) |-> x[Len(x) + 1 - i]]

\* A with T and C with G swapped, N kept.
Swapped(x) ==
    [i \in 1..Len(x) |->
        CASE x[i] = "A" -> "T" [] x[i] = "T" -> "A"
          [] x[i] = "C" -> "G" [] x[i] = "G" -> "C" [] OTHER -> "N"]

\* The fields of a table row, cut at the commas, the newline left out.
RowFields(line) == Split(SubSeq(line, 1, Len(line) - 1), ",")

\* C14: with two index files, table building ends without error (a run only
\* fails before it has opened any output file) and the table has an entry
\* for exactly the rows before the first blank line of the sample table file,
\* each under the row's index 2 sequence followed by the reverse complement
\* of its index 1 sequence.
C14_RowsBeforeBlank ==
    /\ pc = "crashed" => disk = EmptyDict
    /\ pc = "main" =>
          LET rows == RowsBeforeBlank(indexfile)
          IN /\ SampleKeys =
                  {RowFields(rows[i])[3] \o Reversed(Swapped(RowFields(rows[i])[2])) :
                      i \in 1..Len(rows)}
             /\ SampleNames = {RowFields(rows[i])[1] : i \in 1..Len(rows)}

\* The table file has a row, a blank line and another row: the table holds
\* the first row only, under ACN followed by the reverse complement of NG.
C14_Witness ==
    /\ pc = "main"
    /\ Len(indexfile) = 3
    /\ indexfile[1] = Row(S1, <<"N","G">>, <<"A","C","N">>)
    /\ indexfile[2] = <<NL>>
    /\ indexfile[3] # <<NL>>
    /\ SampleKeys = { <<"A","C","N","C","N">> }

\* The index 1 sequences of the rows table building has read.
Index1Read == {RowFields(l)[2] : l \in {RowsBeforeBlank(indexfile)[i] :
                                          i \in 1..Len(RowsBeforeBlank(indexfile))}}

\* C15: on sequences over A, C, G, T and N the reverse complement is the
\* sequence reversed with A and T swapped, C and G swapped and N kept, and
\* taking it twice gives the sequence back.
C15_RevcompInvolution ==
    \A x \in Index1Read :
        /\ revcomp(x) = Reversed(Swapped(x))
        /\ revcomp(revcomp(x)) = x

\* Table building has stored S1 under its index 2 sequence followed by CN,
\* the reverse complement of NG.
C15_Witness ==
    /\ pc = "main"
    /\ <<"N","G">> \in Index1Read
    /\ revcomp(<<"N","G">>) = <<"C","N">>
    /\ usedindexes[S1] = <<"A","C","N">> \o revcomp(<<"N","G">>)

\* The name and the compound index of the i-th index pair of the output-all block.
PairName(i) == S_Indexes \o allXcombs[i]

PairKey(i) == allXindexes[i]

\* The pairs no row of the sample table uses, once the tables are built.
UnusedPairs ==
    {i \in 1..Len(allXcombs) :
        \A n \in DOMAIN usedindexes' \ {PairName(i)} : usedindexes'[n] # PairKey(i)}

\* C16: in output-all mode, with or without a sample table and with one or
\* two index files, table building ends with an entry named Indexes_<i>-<j>
\* and counted 0 for every index pair no sample uses, and a read whose
\* barcode is such a pair's compound index is appended to that pair's file
\* and counted under that pair's name.
C16_OutputAllRouted ==
    [][ /\ (pc = "tables" /\ inputargs.outputall) =>
              /\ pc' = "main"
              /\ \A i \in UnusedPairs :
                    /\ PairName(i) \in DOMAIN outputreads'
                    /\ outputreads'[PairName(i)] = 0
                    /\ PairName(i) \in DOMAIN usedindexes'
                    /\ usedindexes'[PairName(i)] = PairKey(i)
        /\ (pc = "demux" /\ inputargs.outputall) =>
              \A i \in 1..Len(allXcombs) :
                 (seqX = PairKey(i) /\ PairName(i) \in DOMAIN outputreads) =>
                    /\ pc' = "loop"
                    /\ Len(disk'[PairName(i) \o suffix]) = Len(disk[PairName(i) \o suffix]) + 1
                    /\ outputreads'[PairName(i)] = outputreads[PairName(i)] + 1 ]_vars

\* The index pairs that hold a count entry, and those among them counted 0.
PairsCounted == {i \in 1..Len(allXcombs) : PairName(i) \in DOMAIN outputreads}

\* C17: in output-all mode the clean-up after the loop completes, deletes the
\* file and the count entry of every index pair that received no read and of
\* no pair that received one, and no step of the loop deletes a file or a
\* count entry.
C17_CleanupDeletesUnused ==
    [][ /\ (pc = "post" /\ inputargs.outputall) =>
              /\ pc' = "done"
              /\ \A i \in PairsCounted :
                    IF outputreads[PairName(i)] = 0
                    THEN /\ PairName(i) \notin DOMAIN outputreads'
                         /\ PairName(i) \o suffix \notin DOMAIN disk'
                    ELSE /\ PairName(i) \in DOMAIN outputreads'
                         /\ PairName(i) \o suffix \in DOMAIN disk'
        /\ pc \in {"loop", "demux"} =>
              /\ DOMAIN disk \subseteq DOMAIN disk'
              /\ DOMAIN outputreads \subseteq DOMAIN outputreads' ]_vars

\* The characters of s before its first whitespace character.
RECURSIVE BeforeWhitespace(_)
BeforeWhitespace(s) ==
    IF Len(s) = 0 \/ Head(s) \in Whitespace THEN << >>
    ELSE <<Head(s)>> \o BeforeWhitespace(Tail(s))

\* C18: the identifier of a yielded record is its header line without the
\* first character, cut at the first whitespace character, be it a space or
\* a tab.
C18_IdentifierCutAtWhitespace ==
    (pc = "read" /\ logical.ending = "whole") =>
        /\ Len(yielded) = Len(logical.records)
        /\ \A i \in 1..Len(yielded) :
              yielded[i][1] = BeforeWhitespace(SliceFrom(logical.records[i].header, 1))

\* C19: every record the reader yields with a quality has a quality string
\* exactly as long as its sequence.
C19_QualityAsLongAsSequence ==
    pc = "read" =>
        \A i \in 1..Len(yielded) :
           yielded[i][3] # NoneVal => Len(yielded[i][3]) = Len(yielded[i][2])

\* The lines of a file holding the records recs whole, the sequence blocks
\* wrapped at width ws and the quality blocks at width wq.
RECURSIVE Rewrapped(_, _, _)
Rewrapped(recs, ws, wq) ==
    IF Len(recs) = 0 THEN << >>
    ELSE << Head(recs).header \o <<NL>> >> \o Wrapped(Head(recs).seq, ws)
            \o << <<"+", NL>> >> \o Wrapped(Head(recs).qual, wq)
            \o Rewrapped(Tail(recs), ws, wq)

\* C20: the records the reader yields from a FASTQ file do not depend on how
\* the sequence and quality blocks are wrapped over lines: they are, in number
\* and order, the records the file was written from, with the quality whole
\* even where one of its lines begins with "@", "+" or ">", and the same
\* records are read from the file wrapped at any other widths.
C20_WrappingIrrelevant ==
    (pc = "read" /\ logical.ending = "whole") =>
        /\ Len(yielded) = Len(logical.records)
        /\ \A i \in 1..Len(yielded) :
              /\ yielded[i][2] = logical.records[i].seq
              /\ yielded[i][3] = logical.records[i].qual
        /\ \A ws \in Widths, wq \in Widths :
              readfq(Rewrapped(logical.records, ws, wq)) = yielded

\* Two records have been read from a file wrapped at one character a line,
\* the first with the quality I@+> on four lines.
C20_Witness ==
    /\ pc = "read"
    /\ logical.ending = "whole"
    /\ logical.width = 1
    /\ Len(yielded) = 2
    /\ fp[8] = <<"@", NL>> /\ fp[9] = <<"+", NL>> /\ fp[10] = <<">", NL>>
    /\ yielded[1][3] = <<"I", "@", "+", ">">>

\* C21: an iteration raises the total read count by exactly one when it takes
\* its tuple and, when it ends, has raised exactly one of the demultiplexed
\* count and the Undetermined count by one; after it the total is the sum of
\* the two, the fuzzy count is at most the demultiplexed count, the clash
\* count at most the Undetermined count, and the fuzzy list is as long as the
\* fuzzy count.
C21_CountersConsistent ==
    [][ /\ (pc = "loop" /\ pc' \in {"demux", "crashed"}) =>
              /\ count' = count + 1
              /\ dmpd_count' = dmpd_count
              /\ UndeterminedCount' = UndeterminedCount
        /\ (pc = "demux" /\ pc' = "loop") =>
              /\ count' = count
              /\ \/ dmpd_count' = dmpd_count + 1 /\ UndeterminedCount' = UndeterminedCount
                 \/ dmpd_count' = dmpd_count /\ UndeterminedCount' = UndeterminedCount + 1
              /\ count' = dmpd_count' + UndeterminedCount'
              /\ fuzzy_count' <= dmpd_count'
              /\ clash_count' <= UndeterminedCount'
              /\ Len(fuzzies') = fuzzy_count' ]_vars

\* Two iterations have ended: one read was accepted on a fuzzy match, the
\* other was within the threshold of two keys and went to Undetermined.
C21_Witness ==
    /\ pc = "loop"
    /\ count = 2
    /\ dmpd_count = 1 /\ fuzzy_count = 1 /\ Len(fuzzies) = 1
    /\ UndeterminedCount = 1 /\ clash_count = 1

\* The number of records the file at path holds after the step.
FileLenAfter(path) == IF path \in DOMAIN disk' THEN Len(disk'[path]) ELSE 0

\* C22: whatever the extension and the sample names, a read accepted for
\* sample S is appended with its R1 record to <S>_R1.<ext> and with its R2
\* record to <S>_R2.<ext>, and after it the R1 and R2 files of every sample
\* hold the same number of records.
C22_PairedFiles ==
    [][ (Matching /\ pc' = "loop") =>
          /\ \A k \in SampleKeys :
                AcceptedFor(k) =>
                   /\ Appended(SampleOf(k) \o S_R1 \o suffix, new_record1)
                   /\ Appended(SampleOf(k) \o S_R2 \o suffix, new_record2)
          /\ \A n \in SampleNames :
                FileLenAfter(n \o S_R1 \o suffix) = FileLenAfter(n \o S_R2 \o suffix) ]_vars

\* C23: a run with two index files in which a configured sample received no
\* read completes: when the loop is over, the R1 and the R2 file of every
\* configured sample exist, and the closing of the output files succeeds.
C23_EmptySampleCompletes ==
    [][ (pc = "post" /\ inputargs.index2 /\ ~inputargs.outputall) =>
          /\ \A n \in SampleNames :
                /\ n \o S_R1 \o suffix \in DOMAIN disk
                /\ n \o S_R2 \o suffix \in DOMAIN disk
          /\ pc' = "done" ]_vars

\* What the file at path holds, nothing when it was never written.
FileOf(path) == IF path \in DOMAIN disk THEN disk[path] ELSE << >>

\* The number of the read tuple a written record or an identifier came from:
\* the digit the identifier ends with.
ReadNumber(id) == CHOOSE n \in 0..9 : Digit(n) = id[Len(id)]

RecordNumber(rec) == ReadNumber(SubSeq(rec, 2, 3))

\* The records of the file at path are in input order.
InInputOrder(path) ==
    \A i, j \in 1..Len(FileOf(path)) :
        i < j => RecordNumber(FileOf(path)[i]) < RecordNumber(FileOf(path)[j])

\* The k-th records of the two files come from the same read tuple.
SameTuples(path1, path2) ==
    /\ Len(FileOf(path1)) = Len(FileOf(path2))
    /\ \A k \in 1..Len(FileOf(path1)) :
          RecordNumber(FileOf(path1)[k]) = RecordNumber(FileOf(path2)[k])

\* The output files that hold text as the loop wrote it, not compressed.
PlainFiles ==
    {f \in DOMAIN disk : Len(f) < 3 \/ SubSeq(f, Len(f) - 2, Len(f)) # S_gz}

\* C24: reads are routed in input order: in every output file the records
\* stand in the order of their read tuples, the k-th record of a sample's R1
\* file and of its R2 file come from the same tuple (and so for the two
\* Undetermined files), and the fuzzy list names its reads in input order.
C24_InputOrder ==
    /\ \A f \in PlainFiles : InInputOrder(f)
    /\ inputargs.index2 =>
          /\ \A n \in SampleNames : SameTuples(n \o S_R1 \o suffix, n \o S_R2 \o suffix)
          /\ SameTuples(S_Undetermined \o S_R1 \o suffix, S_Undetermined \o S_R2 \o suffix)
    /\ \A i, j \in 1..Len(fuzzies) :
          i < j => ReadNumber(fuzzies[i]) < ReadNumber(fuzzies[j])

\* The table built for the index mode, and the destination a sample's row
\* asks for.
BuiltTable == IF inputargs.index2 THEN XXdict1 ELSE XXdict

RowDestination(f) == IF inputargs.index2 THEN f[1] \o S_R1 \o suffix ELSE f[1] \o suffix

RowKey(f) ==
    IF inputargs.index2 THEN f[3] \o Reversed(Swapped(f[2]))
    ELSE X1dict[f[2]] \o X2dict[f[3]]

\* C25: table building drops and overrides no sample: once the table is
\* built, every row before the first blank line has its entry, under the
\* row's compound index, leading to that row's own sample destination, also
\* when two rows have the same compound index.
C25_NoSampleOverridden ==
    pc = "main" =>
        \A i \in 1..Len(RowsBeforeBlank(indexfile)) :
           LET f == RowFields(RowsBeforeBlank(indexfile)[i])
           IN /\ RowKey(f) \in DOMAIN BuiltTable
              /\ BuiltTable[RowKey(f)].val = RowDestination(f)

====
